---- MODULE Spec2Model ----
(***************************************************************************)
(* A model of the note lifecycle engine of mocktest-backend: the notes     *)
(* table and the handlers of notesRoute.js (create, update, autosave,      *)
(* delete, public read), the encryption helpers of encryption.js, and the  *)
(* label / category assignment handlers of labelsRoute.js over the join    *)
(* tables of the labels migration.                                         *)
(*                                                                         *)
(* A nullable column or an optional request field is a sequence of length  *)
(* at most one: <<>> is NULL / absent, <<v>> is the value v.               *)
(***************************************************************************)
EXTENDS Integers, Sequences, FiniteSets, TLC

VARIABLES
  notes,            \* the notes table: note id -> row
  nextId,           \* notes.id SERIAL: the next id the store hands out
  now,              \* the wall clock read by new Date()
  cleared,          \* history: share ids that an update has cleared
  labels,           \* the labels table: label id -> row
  categories,       \* the categories table: category id -> row
  nextTagId,        \* labels.id / categories.id SERIAL, per table
  note_labels,      \* join table: <<note_id, label_id>> -> number of rows
  note_categories,  \* join table: <<note_id, category_id>> -> number of rows
  inflight,         \* requests between two of their store calls
  seen,             \* what the last concurrent read of a note's tags returned
  last,             \* the last request served and its response
  pager,            \* history: the pages a client has fetched of one listing
  env               \* process.env.ENCRYPTION_KEY of the running process, if set

vars == <<notes, nextId, now, cleared, labels, categories, nextTagId,
          note_labels, note_categories, inflight, seen, last, pager, env>>

noteVars == <<notes, nextId, cleared>>
tagVars == <<labels, categories, nextTagId, note_labels, note_categories>>

----------------------------------------------------------------------------
(* Bounds of the model *)

MaxNotes == 2
MaxTime == 1
NumShareIds == 2
MaxTags == 2
MaxInflight == 2
MaxRows == 160

Users == {"u1", "u2"}
Contents == {"", "x", "y"}
Salts == {"s1", "s2"}
ShareIdSpace == 1..NumShareIds
NoteIds == 1..MaxNotes
TagIds == 1..MaxTags
Kinds == {"label", "category"}
TagNames == {"work", "home"}
TagIdLists == UNION {[1..n -> TagIds] : n \in 0..MaxTags}

Bools == {TRUE, FALSE}

None == <<>>
Some(v) == <<v>>
IsSome(o) == o # <<>>
Val(o) == o[1]
Opt(S) == {None} \cup {Some(v) : v \in S}

----------------------------------------------------------------------------
(* encryption.js *)

DefaultKey == "default-encryption-key-change-in-production"

\* const ENCRYPTION_KEY = process.env.ENCRYPTION_KEY || 'default-...': the key
\* of the running process is the one of its environment, and the built-in
\* one when the environment has none or an empty one. A ciphertext written
\* by a process that ran with another key carries OtherKey.
ENCRYPTION_KEY == IF env = None \/ env = Some("") THEN DefaultKey ELSE Val(env)
OtherKey == "other key"

\* CryptoJS.AES.encrypt with a passphrase draws a random salt: the same text
\* has several ciphertexts, all of which decrypt to it under the process key.
encryptText(text, salt) == [key |-> ENCRYPTION_KEY, salt |-> salt, ct |-> text]

\* decryptText throws ('Failed to decrypt content') when CryptoJS cannot
\* turn the bytes into text, as for a ciphertext of another key.
DecryptThrows(encryptedText) == encryptedText.key # ENCRYPTION_KEY

\* The value decryptText returns when it does not throw.
decryptText(encryptedText) == encryptedText.ct

\* 12 hex characters drawn at random: any value of the id space, at any call.
generateShareId == ShareIdSpace

----------------------------------------------------------------------------
(* The notes table *)

Exists(id) == id \in DOMAIN notes

\* Faulty variant, for sensitivity of the properties below: the lookup is not narrowed to the caller.
OwnedByAnyone(u, id) == Exists(id)

\* .eq("id", id).eq("user_id", req.user.id).single()
Owned(u, id) == Exists(id) /\ notes[id].user_id = u

\* notes.public_share_id is UNIQUE: row id may take share id s unless another
\* row holds it (NULLs never collide).
ShareIdFree(id, s) ==
  \/ s = None
  \/ \A other \in DOMAIN notes \ {id} : notes[other].public_share_id # s

\* The error of an insert or update that breaks the UNIQUE constraint of
\* public_share_id, with the share ids the request had generated.
ShareIdExists(generated) == [error |-> "share id exists", generated |-> generated]

\* The last request served: its route, the status of its response, the note
\* it named or returned, (for a request that was carried out) its body, and
\* the note object of the response when it has one.
Reply(op, status, id, arg) ==
  [op |-> op, status |-> status, id |-> id, arg |-> arg, note |-> None, list |-> None]

ReplyNote(op, status, id, arg, note) ==
  [op |-> op, status |-> status, id |-> id, arg |-> arg, note |-> Some(note), list |-> None]

\* res.json({ notes, pagination }) of the listing.
ReplyList(op, status, arg, list) ==
  [op |-> op, status |-> status, id |-> 0, arg |-> arg, note |-> None, list |-> Some(list)]

\* if (note.is_encrypted && note.encrypted_content) { try { note.content =
\* decryptText(note.encrypted_content); delete note.encrypted_content }
\* catch { note.content = sentinel } }
\* A deleted key is an absent one. A row that fails the test is sent as it
\* is, ciphertext column included; so is the ciphertext of a row whose
\* decryption throws, since the delete comes after the call that throws.
Decrypted(row, sentinel) ==
  IF row.is_encrypted /\ IsSome(row.encrypted_content)
  THEN IF DecryptThrows(Val(row.encrypted_content))
       THEN [row EXCEPT !.content = Some(sentinel)]
       ELSE [row EXCEPT !.content = Some(decryptText(Val(row.encrypted_content))),
                        !.encrypted_content = None]
  ELSE row

\* The list, fetch and update handlers.
NoteResponse(row) == Decrypted(row, "[Decryption Error]")

\* The public read.
PublicResponse(row) == Decrypted(row, "[Content unavailable]")

\* A row that holds a ciphertext written under another ENCRYPTION_KEY (the
\* process was restarted with a different key, or with none and so with the
\* default one).
WrittenUnderOtherKey(id) ==
  /\ id \in DOMAIN notes
  /\ IsSome(notes[id].encrypted_content)
  /\ ~DecryptThrows(Val(notes[id].encrypted_content))
  /\ notes' = [notes EXCEPT ![id].encrypted_content =
                              Some([Val(@) EXCEPT !.key = OtherKey])]
  /\ UNCHANGED <<nextId, now, cleared, tagVars, inflight, seen, last, pager, env>>

\* The values a random draw can take when the handler makes the draw, and
\* one arbitrary value when it does not (the value is then unused).
Draws(used, S) == IF used THEN S ELSE {CHOOSE v \in S : TRUE}

----------------------------------------------------------------------------
(* router.post("/") *)

NoteReqs(T, C, E, P, D) ==
  [title : T, content : C, is_encrypted : E, is_public : P, is_draft : D]

CreateContent(req) == IF IsSome(req.content) THEN Val(req.content) ELSE ""
CreateFlag(field, default) == IF IsSome(field) THEN Val(field) ELSE default

\* if (is_encrypted && content): the empty string is falsy.
CreateEncrypts(req) == CreateFlag(req.is_encrypted, FALSE) /\ CreateContent(req) # ""

\* Faulty variant, for sensitivity of the properties below: published_at is stamped only for
\* a note that is not a draft.
CreateRowPublishedWhenNotDraft(u, req, salt, sid, t) ==
  LET is_public == CreateFlag(req.is_public, FALSE)
      is_draft == CreateFlag(req.is_draft, TRUE)
  IN [user_id |-> u,
      title |-> Val(req.title),
      content |-> IF CreateEncrypts(req) THEN None ELSE Some(CreateContent(req)),
      encrypted_content |-> IF CreateEncrypts(req)
                            THEN Some(encryptText(CreateContent(req), salt)) ELSE None,
      is_encrypted |-> CreateFlag(req.is_encrypted, FALSE),
      is_public |-> is_public,
      is_draft |-> is_draft,
      public_share_id |-> IF is_public THEN Some(sid) ELSE None,
      created_at |-> t,
      updated_at |-> t,
      published_at |-> IF ~is_draft THEN Some(t) ELSE None,
      auto_saved_at |-> None]

\* The row that create inserts for a validated body, with its defaults.
CreateRow(u, req, salt, sid, t) ==
  LET is_public == CreateFlag(req.is_public, FALSE)
      is_draft == CreateFlag(req.is_draft, TRUE)
  IN [user_id |-> u,
      title |-> Val(req.title),
      content |-> IF CreateEncrypts(req) THEN None ELSE Some(CreateContent(req)),
      encrypted_content |-> IF CreateEncrypts(req)
                            THEN Some(encryptText(CreateContent(req), salt)) ELSE None,
      is_encrypted |-> CreateFlag(req.is_encrypted, FALSE),
      is_public |-> is_public,
      is_draft |-> is_draft,
      public_share_id |-> IF is_public THEN Some(sid) ELSE None,
      created_at |-> t,
      updated_at |-> t,
      published_at |-> IF is_public \/ ~is_draft THEN Some(t) ELSE None,
      auto_saved_at |-> None]

\* if (data.is_encrypted && data.encrypted_content) { data.content = content;
\* delete data.encrypted_content }: the plaintext is the one of the request.
CreateResponse(data, req) ==
  IF data.is_encrypted /\ IsSome(data.encrypted_content)
  THEN [data EXCEPT !.content = Some(CreateContent(req)), !.encrypted_content = None]
  ELSE data

Create(u, req) ==
  /\ nextId <= MaxNotes
  /\ \E salt \in Draws(CreateEncrypts(req), Salts),
        sid \in Draws(CreateFlag(req.is_public, FALSE), generateShareId) :
       LET row == CreateRow(u, req, salt, sid, now)
       IN IF ShareIdFree(nextId, row.public_share_id)
          THEN /\ notes' = [i \in DOMAIN notes \cup {nextId} |->
                              IF i = nextId THEN row ELSE notes[i]]
               /\ nextId' = nextId + 1
               /\ last' = ReplyNote("create", 201, nextId, req, CreateResponse(row, req))
          ELSE /\ UNCHANGED <<notes, nextId>>
               /\ last' = Reply("create", 400, 0, ShareIdExists(<<sid>>))
  /\ UNCHANGED <<now, cleared, tagVars, inflight, seen, pager, env>>

----------------------------------------------------------------------------
(* router.get("/"): the listing *)

LimitCap == 100
DefaultLimit == 20

\* const offset = (page - 1) * limit: the limit as it was asked for.
offset(page, limit) == (page - 1) * limit

\* const parsedLimit = Math.min(parseInt(limit), 100)
parsedLimit(limit) == IF limit < LimitCap THEN limit ELSE LimitCap

\* query.range(from, to): the rows at the 0-based positions from..to of the
\* ordered result, as many of them as exist.
range(rows, from, to) ==
  LET upto == IF to + 1 < Len(rows) THEN to + 1 ELSE Len(rows)
  IN IF from >= upto THEN <<>> ELSE [k \in 1..(upto - from) |-> rows[from + k]]

\* query.range(offset, offset + parsedLimit - 1)
PageOf(rows, page, limit) ==
  range(rows, offset(page, limit), offset(page, limit) + parsedLimit(limit) - 1)

\* hasNext: (page * parsedLimit) < (count || 0)
hasNext(page, limit, count) == page * parsedLimit(limit) < count

\* hasPrev: page > 1
hasPrev(page) == page > 1

\* The query string of a listing. An absent parameter is None.
ListQueries(Pages, Limits, SortBys, SortOrders, DraftOnly, Visibility, Search, From, To) ==
  [page : Pages, limit : Limits, sort_by : SortBys, sort_order : SortOrders,
   draft_only : DraftOnly, visibility : Visibility, search : Search,
   date_from : From, date_to : To]

validSortFields == {"created_at", "updated_at", "title", "published_at", "auto_saved_at"}

\* const sortField = validSortFields.includes(sort_by) ? sort_by : 'updated_at'
\* (sort_by = 'updated_at' when the parameter is absent).
sortField(q) ==
  IF IsSome(q.sort_by) /\ Val(q.sort_by) \in validSortFields
  THEN Val(q.sort_by) ELSE "updated_at"

\* const ascending = sort_order === 'asc'
ascending(q) == q.sort_order = Some("asc")

\* The collation of the titles of the model.
TitleRank(title) == IF title = "A" THEN 1 ELSE 2

\* The value a row is ordered by, as a nullable number.
SortKey(row, field) ==
  CASE field = "title" -> Some(TitleRank(row.title))
    [] field = "created_at" -> Some(row.created_at)
    [] field = "updated_at" -> Some(row.updated_at)
    [] field = "published_at" -> row.published_at
    [] field = "auto_saved_at" -> row.auto_saved_at

\* Faulty variant, for sensitivity of the properties below: ties are broken by id ascending.
BeforeTiesAscending(i, j, q) ==
  LET a == SortKey(notes[i], sortField(q))
      b == SortKey(notes[j], sortField(q))
  IN IF a = b THEN i < j
     ELSE IF a = None THEN ~ascending(q)
     ELSE IF b = None THEN ascending(q)
     ELSE IF ascending(q) THEN Val(a) < Val(b) ELSE Val(a) > Val(b)

\* query.order(sortField, { ascending }).order('id', { ascending: false }):
\* row i comes before row j. The store puts NULLs last in ascending order
\* and first in descending order.
Before(i, j, q) ==
  LET a == SortKey(notes[i], sortField(q))
      b == SortKey(notes[j], sortField(q))
  IN IF a = b THEN i > j
     ELSE IF a = None THEN ~ascending(q)
     ELSE IF b = None THEN ascending(q)
     ELSE IF ascending(q) THEN Val(a) < Val(b) ELSE Val(a) > Val(b)

\* The ids of S in the order of the query.
Ordered(S, q) ==
  [k \in 1..Cardinality(S) |->
     CHOOSE i \in S : Cardinality({j \in S : Before(j, i, q)}) = k - 1]

\* column.ilike.%search%: on the one-character titles and contents of the
\* model a text contains the pattern when it is the pattern.
ILike(text, search) == IsSome(text) /\ Val(text) = search

\* The filters that the page query and the count query both apply:
\* draft_only, visibility and search (an empty search string is falsy).
CommonFilters(u, id, q) ==
  /\ notes[id].user_id = u
  /\ q.draft_only = Some("true") => notes[id].is_draft
  /\ q.draft_only = Some("false") => ~notes[id].is_draft
  /\ q.visibility = Some("public") => notes[id].is_public
  /\ q.visibility = Some("private") => ~notes[id].is_public
  /\ q.visibility = Some("encrypted") => notes[id].is_encrypted
  /\ (IsSome(q.search) /\ Val(q.search) # "") =>
        \/ ILike(Some(notes[id].title), Val(q.search))
        \/ ILike(notes[id].content, Val(q.search))

\* The page query: also .gte('created_at', date_from), .lte('created_at', date_to).
PageMatches(u, q) ==
  {id \in DOMAIN notes :
     /\ CommonFilters(u, id, q)
     /\ IsSome(q.date_from) => notes[id].created_at >= Val(q.date_from)
     /\ IsSome(q.date_to) => notes[id].created_at <= Val(q.date_to)}

\* The count query: the date range is not among its filters.
CountMatches(u, q) == {id \in DOMAIN notes : CommonFilters(u, id, q)}

\* .select("id, title, content, encrypted_content, is_encrypted, is_draft,
\* is_public, tags, created_at, updated_at, published_at, auto_saved_at")
ListColumns(id) ==
  [id |-> id, title |-> notes[id].title, content |-> notes[id].content,
   encrypted_content |-> notes[id].encrypted_content,
   is_encrypted |-> notes[id].is_encrypted, is_draft |-> notes[id].is_draft,
   is_public |-> notes[id].is_public, created_at |-> notes[id].created_at,
   updated_at |-> notes[id].updated_at, published_at |-> notes[id].published_at,
   auto_saved_at |-> notes[id].auto_saved_at]

\* The rows the page query returns.
PageRows(u, q) ==
  LET ids == PageOf(Ordered(PageMatches(u, q), q), q.page, q.limit)
  IN [k \in DOMAIN ids |-> ListColumns(ids[k])]

\* Faulty variant, for sensitivity of the properties below: one row that cannot be decrypted
\* blanks the content of every row of the page.
ListResponseAllOrNothing(rows, count, q) ==
  LET failed == \E k \in DOMAIN rows : /\ rows[k].is_encrypted
                                       /\ IsSome(rows[k].encrypted_content)
                                       /\ DecryptThrows(Val(rows[k].encrypted_content))
  IN [notes |-> [k \in DOMAIN rows |->
                   IF failed THEN [rows[k] EXCEPT !.content = Some("[Decryption Error]")]
                   ELSE NoteResponse(rows[k])],
      total |-> count,
      hasNext |-> hasNext(q.page, q.limit, count),
      hasPrev |-> hasPrev(q.page)]

\* The response: notes.map(decrypt) and the pagination block.
ListResponse(rows, count, q) ==
  [notes |-> [k \in DOMAIN rows |-> NoteResponse(rows[k])],
   total |-> count,
   hasNext |-> hasNext(q.page, q.limit, count),
   hasPrev |-> hasPrev(q.page)]

\* The two queries read the same state of the store.
List(u, q) ==
  /\ last' = ReplyList("list", 200, [user |-> u, query |-> q],
                       ListResponse(PageRows(u, q), Cardinality(CountMatches(u, q)), q))
  /\ UNCHANGED <<noteVars, now, tagVars, inflight, seen, pager, env>>

\* The same handler one store call at a time. Promise.all([query,
\* countQuery]) sends two requests to the store, which serves them in either
\* order with other requests between them. With each answer the request in
\* flight records what the other query would have answered at that moment.
Listing == {r \in inflight : r.pc = "list"}

ListBegin(u, q) ==
  /\ Cardinality(inflight) < MaxInflight
  /\ inflight' = inflight \cup
        {[pc |-> "list", user |-> u, query |-> q, rows |-> None, count |-> None,
          countThen |-> None, rowsThen |-> None]}
  /\ UNCHANGED <<noteVars, now, tagVars, seen, last, pager, env>>

\* The handler goes on when both answers are there.
ListAnswered(was, r) ==
  IF IsSome(r.rows) /\ IsSome(r.count)
  THEN /\ inflight' = inflight \ {was}
       /\ last' = ReplyList("list", 200,
                            [user |-> r.user, query |-> r.query,
                             countThen |-> Val(r.countThen), rowsThen |-> Val(r.rowsThen)],
                            ListResponse(Val(r.rows), Val(r.count), r.query))
  ELSE /\ inflight' = (inflight \ {was}) \cup {r}
       /\ UNCHANGED last

ListPage(r) ==
  /\ r \in Listing /\ r.rows = None
  /\ ListAnswered(r, [r EXCEPT !.rows = Some(PageRows(r.user, r.query)),
                            !.countThen = Some(Cardinality(CountMatches(r.user, r.query)))])
  /\ UNCHANGED <<noteVars, now, tagVars, seen, pager, env>>

ListCount(r) ==
  /\ r \in Listing /\ r.count = None
  /\ ListAnswered(r, [r EXCEPT !.count = Some(Cardinality(CountMatches(r.user, r.query))),
                            !.rowsThen = Some(PageRows(r.user, r.query))])
  /\ UNCHANGED <<noteVars, now, tagVars, seen, pager, env>>

----------------------------------------------------------------------------
(* router.get("/:id") *)

Fetch(u, id) ==
  /\ IF Owned(u, id)
     THEN last' = ReplyNote("fetch", 200, id, None, NoteResponse(notes[id]))
     ELSE last' = Reply("fetch", 404, id, None)
  /\ UNCHANGED <<noteVars, now, tagVars, inflight, seen, pager, env>>

----------------------------------------------------------------------------
(* router.put("/:id") *)

\* const shouldEncrypt = validatedData.is_encrypted ?? existingNote.is_encrypted
\* and then if (shouldEncrypt && validatedData.content).
UpdateEncrypts(existingNote, req) ==
  /\ IsSome(req.content)
  /\ IF IsSome(req.is_encrypted) THEN Val(req.is_encrypted) ELSE existingNote.is_encrypted
  /\ Val(req.content) # ""

UpdateGeneratesId(existingNote, req) ==
  req.is_public = Some(TRUE) /\ ~IsSome(existingNote.public_share_id)

\* Faulty variant, for sensitivity of the properties below: the update never generates a share id.
UpdatePublicShareIdNeverGenerates(existingNote, req, sid) ==
  IF req.is_public = Some(FALSE) THEN None ELSE existingNote.public_share_id

\* Faulty variant, for sensitivity of the properties below: an absent is_public is taken for
\* false (else if (!validatedData.is_public)).
UpdatePublicShareIdClearsWhenAbsent(existingNote, req, sid) ==
  IF UpdateGeneratesId(existingNote, req) THEN Some(sid)
  ELSE IF req.is_public # Some(TRUE) THEN None
  ELSE existingNote.public_share_id

\* Faulty variant, for sensitivity of the properties below: is_public false
\* leaves the share id where it is.
UpdatePublicShareIdKeepsWhenPrivate(existingNote, req, sid) ==
  IF UpdateGeneratesId(existingNote, req) THEN Some(sid)
  ELSE existingNote.public_share_id

\* if (validatedData.is_public === true && !existingNote.public_share_id)
\* ... else if (validatedData.is_public === false)
UpdatePublicShareId(existingNote, req, sid) ==
  IF UpdateGeneratesId(existingNote, req) THEN Some(sid)
  ELSE IF req.is_public = Some(FALSE) THEN None
  ELSE existingNote.public_share_id

\* Faulty variant, for sensitivity of the properties below: published_at follows the draft flag back to NULL.
UpdatePublishedAtFollowsDraft(existingNote, req, t) ==
  IF req.is_draft = Some(FALSE) /\ existingNote.is_draft THEN Some(t)
  ELSE IF req.is_draft = Some(TRUE) THEN None
  ELSE existingNote.published_at

\* if (validatedData.is_draft === false && existingNote.is_draft === true)
UpdatePublishedAt(existingNote, req, t) ==
  IF req.is_draft = Some(FALSE) /\ existingNote.is_draft THEN Some(t)
  ELSE existingNote.published_at

\* The row after the UPDATE statement built from a validated body: only the
\* columns named in updateData change, and the table's BEFORE UPDATE trigger
\* stamps updated_at.
UpdateRow(existingNote, req, salt, sid, t) ==
  [existingNote EXCEPT
     !.title = IF IsSome(req.title) THEN Val(req.title) ELSE @,
     !.is_encrypted = IF IsSome(req.is_encrypted) THEN Val(req.is_encrypted) ELSE @,
     !.is_public = IF IsSome(req.is_public) THEN Val(req.is_public) ELSE @,
     !.is_draft = IF IsSome(req.is_draft) THEN Val(req.is_draft) ELSE @,
     !.content = IF ~IsSome(req.content) THEN @
                 ELSE IF UpdateEncrypts(existingNote, req) THEN None ELSE req.content,
     !.encrypted_content =
                 IF ~IsSome(req.content) THEN @
                 ELSE IF UpdateEncrypts(existingNote, req)
                      THEN Some(encryptText(Val(req.content), salt))
                      ELSE None,
     !.public_share_id = UpdatePublicShareId(existingNote, req, sid),
     !.published_at = UpdatePublishedAt(existingNote, req, t),
     !.updated_at = t]

Update(u, id, req) ==
  /\ IF ~Owned(u, id)
     THEN /\ UNCHANGED noteVars
          /\ last' = Reply("update", 404, id, None)
     ELSE \E salt \in Draws(UpdateEncrypts(notes[id], req), Salts),
             sid \in Draws(UpdateGeneratesId(notes[id], req), generateShareId) :
            LET row == UpdateRow(notes[id], req, salt, sid, now)
            IN IF ShareIdFree(id, row.public_share_id)
               THEN /\ notes' = [notes EXCEPT ![id] = row]
                    /\ cleared' = IF IsSome(notes[id].public_share_id)
                                     /\ row.public_share_id = None
                                  THEN cleared \cup {Val(notes[id].public_share_id)}
                                  ELSE cleared
                    /\ UNCHANGED nextId
                    /\ last' = ReplyNote("update", 200, id, req, NoteResponse(row))
               ELSE /\ UNCHANGED noteVars
                    /\ last' = Reply("update", 400, id, ShareIdExists(<<sid>>))
  /\ UNCHANGED <<now, tagVars, inflight, seen, pager, env>>

\* The same handler one store call at a time: the SELECT of existingNote,
\* then the UPDATE, with other requests between the two awaits.

MaxUpdating == 2

\* The keys of updateData: the keys of the validated body, the two content
\* columns when the body has content, public_share_id and published_at when
\* the handler sets them, and updated_at.
UpdateColumns(existingNote, req) ==
  {c \in {"title", "is_encrypted", "is_public", "is_draft"} : IsSome(req[c])}
    \cup (IF IsSome(req.content) THEN {"content", "encrypted_content"} ELSE {})
    \cup (IF UpdateGeneratesId(existingNote, req) \/ req.is_public = Some(FALSE)
          THEN {"public_share_id"} ELSE {})
    \cup (IF req.is_draft = Some(FALSE) /\ existingNote.is_draft
          THEN {"published_at"} ELSE {})
    \cup {"updated_at"}

\* .update(updateData).eq("id", id): the columns of updateData, computed
\* from the row that was read, go into the row that is stored now; the
\* trigger stamps updated_at.
WrittenRow(stored, r, t) ==
  [c \in DOMAIN stored |->
     IF c = "updated_at" THEN t
     ELSE IF c \in UpdateColumns(r.existingNote, r.req)
          THEN UpdateRow(r.existingNote, r.req, r.salt, r.sid, r.t)[c]
          ELSE stored[c]]

Updating == {r \in inflight : r.pc = "write"}

\* await supabase.from("notes").select("*")...single(), and the synchronous
\* code up to the next await. When no update is in flight the request
\* starts a new record of the requests that overlap on the note.
UpdateBegin(u, id, req) ==
  /\ Cardinality(inflight) < MaxUpdating
  /\ inflight = Updating
  /\ \A r \in inflight : r.note = id
  /\ IF ~Owned(u, id)
     THEN /\ UNCHANGED <<inflight, seen>>
          /\ last' = Reply("update", 404, id, None)
     ELSE \E salt \in Draws(UpdateEncrypts(notes[id], req), Salts),
             sid \in Draws(UpdateGeneratesId(notes[id], req), generateShareId) :
            LET r == [note |-> id, user |-> u, req |-> req, existingNote |-> notes[id],
                      salt |-> salt, sid |-> sid, t |-> now, pc |-> "write",
                      k |-> CHOOSE k \in 1..MaxUpdating : \A o \in inflight : o.k # k]
            IN /\ inflight' = inflight \cup {r}
               /\ seen' = IF inflight = {}
                          THEN Some([note |-> id, row |-> notes[id], done |-> <<>>])
                          ELSE seen
               /\ UNCHANGED last
  /\ UNCHANGED <<noteVars, now, tagVars, pager, env>>

\* await supabase.from("notes").update(updateData).eq("id", id)
\* .eq("user_id", req.user.id).select().single(): no row (the note was
\* deleted meanwhile) or a taken share id is an error, answered with 400.
UpdateWrite(r) ==
  /\ r \in Updating
  /\ inflight' = inflight \ {r}
  /\ IF Owned(r.user, r.note)
        /\ ShareIdFree(r.note, WrittenRow(notes[r.note], r, now).public_share_id)
     THEN LET row == WrittenRow(notes[r.note], r, now)
          IN /\ notes' = [notes EXCEPT ![r.note] = row]
             /\ cleared' = IF IsSome(notes[r.note].public_share_id)
                              /\ row.public_share_id = None
                           THEN cleared \cup {Val(notes[r.note].public_share_id)}
                           ELSE cleared
             /\ UNCHANGED nextId
             /\ seen' = Some([Val(seen) EXCEPT !.done = Append(@, r)])
             /\ last' = ReplyNote("update", 200, r.note, r.req, NoteResponse(row))
     ELSE /\ UNCHANGED <<noteVars, seen>>
          /\ last' = Reply("update", 400, r.note,
                           IF Owned(r.user, r.note) THEN ShareIdExists(<<r.sid>>) ELSE None)
  /\ UNCHANGED <<now, tagVars, pager, env>>

----------------------------------------------------------------------------
(* router.patch("/:id/autosave") *)

\* The body is not validated: only content and title are read from it, and
\* whatever else it carries (is_encrypted, is_public, is_draft) is dropped.
\* The flag is the one read from the store by .select("is_encrypted").
\* Faulty variant, for sensitivity of the properties below: the flag is negotiated from the body, as update does.
AutosaveEncryptsFromBody(existingNote, req) ==
  IF IsSome(req.is_encrypted) THEN Val(req.is_encrypted) ELSE existingNote.is_encrypted

\* if (existingNote.is_encrypted) ... else ...: the stored flag decides.
AutosaveEncrypts(existingNote, req) == existingNote.is_encrypted

\* Faulty variant, for sensitivity of the properties below: the whole body is spread into updateData, flags included.
AutosaveRowSpreadsBody(existingNote, req, salt, t) ==
  [existingNote EXCEPT
     !.auto_saved_at = Some(t),
     !.title = IF IsSome(req.title) THEN Val(req.title) ELSE @,
     !.is_public = IF IsSome(req.is_public) THEN Val(req.is_public) ELSE @,
     !.is_draft = IF IsSome(req.is_draft) THEN Val(req.is_draft) ELSE @,
     !.content = IF ~IsSome(req.content) THEN @
                 ELSE IF existingNote.is_encrypted THEN None ELSE req.content,
     !.encrypted_content =
                 IF IsSome(req.content) /\ existingNote.is_encrypted
                 THEN Some(encryptText(Val(req.content), salt)) ELSE @,
     !.updated_at = t]

AutosaveRow(existingNote, req, salt, t) ==
  [existingNote EXCEPT
     !.auto_saved_at = Some(t),
     !.title = IF IsSome(req.title) THEN Val(req.title) ELSE @,
     !.content = IF ~IsSome(req.content) THEN @
                 ELSE IF AutosaveEncrypts(existingNote, req) THEN None ELSE req.content,
     !.encrypted_content =
                 IF IsSome(req.content) /\ AutosaveEncrypts(existingNote, req)
                 THEN Some(encryptText(Val(req.content), salt)) ELSE @,
     !.updated_at = t]

Autosave(u, id, req) ==
  /\ IF ~Owned(u, id)
     THEN /\ UNCHANGED notes
          /\ last' = Reply("autosave", 404, id, None)
     ELSE \E salt \in Draws(IsSome(req.content) /\ AutosaveEncrypts(notes[id], req), Salts) :
            /\ notes' = [notes EXCEPT ![id] = AutosaveRow(notes[id], req, salt, now)]
            /\ last' = Reply("autosave", 200, id, req)
  /\ UNCHANGED <<nextId, now, cleared, tagVars, inflight, seen, pager, env>>

\* The same handler one store call at a time: the SELECT of is_encrypted,
\* then the UPDATE, with other requests between the two awaits.

\* The keys of updateData: auto_saved_at, title and content when the body
\* has them, encrypted_content when the flag that was read is set; the
\* trigger stamps updated_at.
AutosaveColumns(existingNote, req) ==
  {"auto_saved_at", "updated_at"}
    \cup (IF IsSome(req.title) THEN {"title"} ELSE {})
    \cup (IF IsSome(req.content) THEN {"content"} ELSE {})
    \cup (IF IsSome(req.content) /\ AutosaveEncrypts(existingNote, req)
          THEN {"encrypted_content"} ELSE {})

\* .update(updateData).eq("id", id): the columns of updateData, computed
\* from the flag that was read, go into the row that is stored now.
AutosaveWritten(stored, r, t) ==
  [c \in DOMAIN stored |->
     IF c = "updated_at" THEN t
     ELSE IF c \in AutosaveColumns(r.existingNote, r.req)
          THEN AutosaveRow(r.existingNote, r.req, r.salt, r.t)[c]
          ELSE stored[c]]

Autosaving == {r \in inflight : r.pc = "autosave"}

AutosaveBegin(u, id, req) ==
  /\ Cardinality(inflight) < MaxInflight
  /\ IF ~Owned(u, id)
     THEN /\ UNCHANGED inflight
          /\ last' = Reply("autosave", 404, id, None)
     ELSE \E salt \in Draws(IsSome(req.content) /\ AutosaveEncrypts(notes[id], req), Salts) :
            /\ inflight' = inflight \cup
                  {[pc |-> "autosave", note |-> id, user |-> u, req |-> req,
                    existingNote |-> notes[id], salt |-> salt, t |-> now]}
            /\ UNCHANGED last
  /\ UNCHANGED <<noteVars, now, tagVars, seen, pager, env>>

\* An UPDATE that matches no row (the note was deleted meanwhile) is not an
\* error: the handler answers 200.
AutosaveWrite(r) ==
  /\ r \in Autosaving
  /\ inflight' = inflight \ {r}
  /\ notes' = IF Owned(r.user, r.note)
              THEN [notes EXCEPT ![r.note] = AutosaveWritten(@, r, now)]
              ELSE notes
  /\ last' = Reply("autosave", 200, r.note, r.req)
  /\ UNCHANGED <<nextId, now, cleared, tagVars, seen, pager, env>>

----------------------------------------------------------------------------
(* router.delete("/:id"), with the ON DELETE CASCADE of the join tables *)

\* Faulty variant, for sensitivity of the properties below: a note of another user is refused
\* with a status of its own.
DeleteTellsForbidden(u, id) ==
  /\ IF Owned(u, id)
     THEN /\ notes' = [i \in DOMAIN notes \ {id} |-> notes[i]]
          /\ note_labels' = [r \in {x \in DOMAIN note_labels : x[1] # id} |-> note_labels[r]]
          /\ note_categories' =
               [r \in {x \in DOMAIN note_categories : x[1] # id} |-> note_categories[r]]
          /\ last' = Reply("delete", 200, id, None)
     ELSE /\ UNCHANGED <<notes, note_labels, note_categories>>
          /\ last' = Reply("delete", IF Exists(id) THEN 403 ELSE 404, id, None)
  /\ UNCHANGED <<nextId, now, cleared, labels, categories, nextTagId, inflight, seen, pager, env>>

\* Faulty variant, for sensitivity of the properties below: the join tables have no
\* ON DELETE CASCADE.
DeleteWithoutCascade(u, id) ==
  /\ IF Owned(u, id)
     THEN /\ notes' = [i \in DOMAIN notes \ {id} |-> notes[i]]
          /\ UNCHANGED <<note_labels, note_categories>>
          /\ last' = Reply("delete", 200, id, None)
     ELSE /\ UNCHANGED <<notes, note_labels, note_categories>>
          /\ last' = Reply("delete", 404, id, None)
  /\ UNCHANGED <<nextId, now, cleared, labels, categories, nextTagId, inflight, seen, pager, env>>

Delete(u, id) ==
  /\ IF Owned(u, id)
     THEN /\ notes' = [i \in DOMAIN notes \ {id} |-> notes[i]]
          /\ note_labels' = [r \in {x \in DOMAIN note_labels : x[1] # id} |-> note_labels[r]]
          /\ note_categories' =
               [r \in {x \in DOMAIN note_categories : x[1] # id} |-> note_categories[r]]
          /\ last' = Reply("delete", 200, id, None)
     ELSE /\ UNCHANGED <<notes, note_labels, note_categories>>
          /\ last' = Reply("delete", 404, id, None)
  /\ UNCHANGED <<nextId, now, cleared, labels, categories, nextTagId, inflight, seen, pager, env>>

----------------------------------------------------------------------------
(* router.get("/public/:shareId") *)

\* Faulty variant, for sensitivity of the properties below: the draft filter is missing from the lookup.
PublicMatchesIgnoringDraft(shareId) ==
  {id \in DOMAIN notes : /\ notes[id].public_share_id = Some(shareId)
                         /\ notes[id].is_public}

\* .eq("public_share_id", shareId).eq("is_public", true).eq("is_draft", false)
PublicMatches(shareId) ==
  {id \in DOMAIN notes : /\ notes[id].public_share_id = Some(shareId)
                         /\ notes[id].is_public
                         /\ ~notes[id].is_draft}

\* .select("id, title, content, encrypted_content, is_encrypted, tags,
\* created_at, updated_at, published_at")
PublicColumns(row) ==
  [title |-> row.title, content |-> row.content,
   encrypted_content |-> row.encrypted_content, is_encrypted |-> row.is_encrypted,
   updated_at |-> row.updated_at, published_at |-> row.published_at]

\* .single() is an error unless exactly one row matches. No user id takes
\* part in the lookup: the route has no authentication middleware.
FetchPublic(shareId) ==
  /\ LET found == PublicMatches(shareId)
         id == CHOOSE i \in found : TRUE
     IN IF Cardinality(found) = 1
        THEN last' = ReplyNote("fetchPublic", 200, id, shareId,
                               PublicResponse(PublicColumns(notes[id])))
        ELSE last' = Reply("fetchPublic", 404, 0, shareId)
  /\ UNCHANGED <<noteVars, now, tagVars, inflight, seen, pager, env>>

----------------------------------------------------------------------------
(* labelsRoute.js: the labels and categories tables *)

TagTable(kind) == IF kind = "label" THEN labels ELSE categories
JoinRows(kind) == IF kind = "label" THEN note_labels ELSE note_categories

SetJoinRows(kind, rows) ==
  /\ note_labels' = IF kind = "label" THEN rows ELSE note_labels
  /\ note_categories' = IF kind = "category" THEN rows ELSE note_categories

\* Faulty variant, for sensitivity of the properties below: the tables
\* have no UNIQUE(user_id, name) constraint.
NameTakenWithoutUnique(kind, u, name) == FALSE

\* UNIQUE(user_id, name) on labels and on categories.
NameTaken(kind, u, name) ==
  \E t \in DOMAIN TagTable(kind) :
    TagTable(kind)[t].user_id = u /\ TagTable(kind)[t].name = name

\* A row of labels, and a row of categories, which has one column more.
TagRow(u, kind, name, parent) ==
  IF kind = "category"
  THEN [user_id |-> u, name |-> name, parent_category_id |-> parent]
  ELSE [user_id |-> u, name |-> name]

SetTagTable(kind, table) ==
  /\ labels' = IF kind = "label" THEN table ELSE labels
  /\ categories' = IF kind = "category" THEN table ELSE categories

\* if (error.code === '23505') ... "Label name already exists"
NameExists == [error |-> "name already exists"]

\* parent_category_id REFERENCES categories(id)
ParentExists(kind, parent) ==
  parent = None \/ (kind = "category" /\ Val(parent) \in DOMAIN categories)

\* router.post("/labels") and router.post("/categories"); a label has no
\* parent, and a category has the parent_category_id of the body or NULL.
InsertTag(u, kind, name, parent) ==
  /\ nextTagId[kind] <= MaxTags
  /\ IF NameTaken(kind, u, name)
     THEN /\ UNCHANGED <<labels, categories, nextTagId>>
          /\ last' = Reply("createTag", 400, 0, NameExists)
     ELSE IF ~ParentExists(kind, parent)
     THEN /\ UNCHANGED <<labels, categories, nextTagId>>
          /\ last' = Reply("createTag", 400, 0, None)
     ELSE LET id == nextTagId[kind]
              table == TagTable(kind)
              added == [t \in DOMAIN table \cup {id} |->
                          IF t = id THEN TagRow(u, kind, name, parent) ELSE table[t]]
          IN /\ SetTagTable(kind, added)
             /\ nextTagId' = [nextTagId EXCEPT ![kind] = id + 1]
             /\ last' = Reply("createTag", 201, id, None)
  /\ UNCHANGED <<noteVars, now, note_labels, note_categories, inflight, seen, pager, env>>

CreateTag(u, kind, name) == InsertTag(u, kind, name, None)

\* The same handler of categories with a parent_category_id in the body.
CreateChildCategory(u, name, parent) == InsertTag(u, "category", name, Some(parent))

\* The UPDATE of a name breaks UNIQUE(user_id, name) when another row of
\* the owner has the name.
RenameTaken(kind, u, id, name) ==
  \E t \in DOMAIN TagTable(kind) \ {id} :
    TagTable(kind)[t].user_id = u /\ TagTable(kind)[t].name = name

\* The row after the UPDATE: the columns of the body.
UpdatedTag(row, kind, name, parent) ==
  LET named == [row EXCEPT !.name = IF IsSome(name) THEN Val(name) ELSE @]
  IN IF kind = "category" /\ IsSome(parent)
     THEN [named EXCEPT !.parent_category_id = parent]
     ELSE named

\* router.put("/labels/:id") and router.put("/categories/:id") with a name
\* and (a category) a parent_category_id in the body, or without:
\* .update(updateData).eq("id", id).eq("user_id", req.user.id).select()
\* .single(). No row is an error of .single(), which is answered with 400
\* like every error of the store.
UpdateTagBody(u, kind, id, name, parent) ==
  /\ LET table == TagTable(kind)
     IN IF id \notin DOMAIN table \/ table[id].user_id # u
        THEN /\ UNCHANGED <<labels, categories>>
             /\ last' = Reply("updateTag", 400, id, None)
        ELSE IF IsSome(name) /\ RenameTaken(kind, u, id, Val(name))
        THEN /\ UNCHANGED <<labels, categories>>
             /\ last' = Reply("updateTag", 400, id, NameExists)
        ELSE IF ~ParentExists(kind, parent)
        THEN /\ UNCHANGED <<labels, categories>>
             /\ last' = Reply("updateTag", 400, id, None)
        ELSE /\ SetTagTable(kind, [table EXCEPT ![id] = UpdatedTag(@, kind, name, parent)])
             /\ last' = Reply("updateTag", 200, id, None)
  /\ UNCHANGED <<noteVars, now, nextTagId, note_labels, note_categories, inflight, seen, pager, env>>

UpdateTag(u, kind, id, name) == UpdateTagBody(u, kind, id, name, None)

\* The same handler of categories with a parent_category_id in the body.
MoveCategory(u, id, parent) == UpdateTagBody(u, "category", id, None, Some(parent))

\* label_id (category_id) REFERENCES labels(id) ON DELETE CASCADE: the
\* assignment rows of a deleted label (category) go with it.
WithoutTag(rows, id) == [r \in {x \in DOMAIN rows : x[2] # id} |-> rows[r]]

\* Faulty variant, for sensitivity of the properties below: the foreign key
\* of parent_category_id is not checked on a delete.
DetachedKeepingParent(table, kind, id) == [t \in DOMAIN table \ {id} |-> table[t]]

\* parent_category_id REFERENCES categories(id) ON DELETE SET NULL
Detached(table, kind, id) ==
  [t \in DOMAIN table \ {id} |->
     IF kind = "category" /\ table[t].parent_category_id = Some(id)
     THEN [table[t] EXCEPT !.parent_category_id = None]
     ELSE table[t]]

\* What is kept of a delete that was carried out: the categories that had
\* the deleted one as their parent and the notes that were assigned to it.
DeleteTagArg(kind, id) ==
  [kind |-> kind,
   children |-> IF kind = "category"
                THEN {c \in DOMAIN categories : categories[c].parent_category_id = Some(id)}
                ELSE {},
   assigned |-> {r[1] : r \in {x \in DOMAIN JoinRows(kind) : x[2] = id}}]

\* router.delete("/labels/:id") and router.delete("/categories/:id"):
\* .delete().eq("id", id).eq("user_id", req.user.id).select(), and 404 when
\* no row was deleted.
DeleteTag(u, kind, id) ==
  /\ LET table == TagTable(kind)
     IN IF id \in DOMAIN table /\ table[id].user_id = u
        THEN /\ SetTagTable(kind, Detached(table, kind, id))
             /\ SetJoinRows(kind, WithoutTag(JoinRows(kind), id))
             /\ last' = Reply("deleteTag", 200, id, DeleteTagArg(kind, id))
        ELSE /\ UNCHANGED <<labels, categories, note_labels, note_categories>>
             /\ last' = Reply("deleteTag", 404, id, None)
  /\ UNCHANGED <<noteVars, now, nextTagId, inflight, seen, pager, env>>

----------------------------------------------------------------------------
(* labelsRoute.js: router.post("/notes/:noteId/labels") and                *)
(* router.post("/notes/:noteId/categories"), the same code over the two    *)
(* join tables                                                             *)

\* A join table is a bag of <<note_id, tag_id>> pairs: each pair it holds,
\* with the number of rows that carry it.
AssignmentsOf(rows, noteId) == {r[2] : r \in {x \in DOMAIN rows : x[1] = noteId}}

\* Faulty variant, for sensitivity of the properties below: the delete does nothing.
DeleteAssignmentsSkipped(rows, noteId) == rows

\* .from("note_labels").delete().eq("note_id", noteId)
DeleteAssignments(rows, noteId) ==
  [r \in {x \in DOMAIN rows : x[1] # noteId} |-> rows[r]]

\* labelIds.map(labelId => ({ note_id, label_id })): one row per element.
NewAssignments(noteId, ids) == [i \in DOMAIN ids |-> <<noteId, ids[i]>>]

\* Faulty variant, for sensitivity of the properties below: the join table has no UNIQUE(note_id, tag_id) constraint.
InsertAcceptedWithoutUnique(rows, table, noteId, ids) ==
  /\ noteId \in DOMAIN notes
  /\ \A i \in DOMAIN ids : ids[i] \in DOMAIN table

\* One INSERT statement of all the rows: it is rejected as a whole when a
\* row breaks UNIQUE(note_id, tag_id), within the statement or against the
\* table, or a foreign key (note_id -> notes, tag id -> labels / categories).
InsertAccepted(rows, table, noteId, ids) ==
  /\ noteId \in DOMAIN notes
  /\ \A i \in DOMAIN ids : ids[i] \in DOMAIN table
  /\ \A i, j \in DOMAIN ids : ids[i] = ids[j] => i = j
  /\ \A i \in DOMAIN ids : <<noteId, ids[i]>> \notin DOMAIN rows

InsertAssignments(rows, noteId, ids) ==
  LET new == NewAssignments(noteId, ids)
      added(r) == Cardinality({i \in DOMAIN new : new[i] = r})
      held(r) == IF r \in DOMAIN rows THEN rows[r] ELSE 0
  IN [r \in DOMAIN rows \cup {new[i] : i \in DOMAIN new} |-> held(r) + added(r)]

\* What is kept of an assign request that was carried out: its body, the
\* assignments the note had before it, and whether it repeats the request
\* served just before it.
AssignArg(noteId, kind, ids, old) ==
  [kind |-> kind, ids |-> ids, old |-> old,
   again |-> /\ last.op = "assign" /\ last.status = 200 /\ last.id = noteId
             /\ last.arg.kind = kind /\ last.arg.ids = ids]

\* The handler run without another request in between.
Assign(u, noteId, kind, ids) ==
  /\ inflight = {}
  /\ IF ~Owned(u, noteId)
     THEN /\ UNCHANGED <<note_labels, note_categories>>
          /\ last' = Reply("assign", 404, noteId, None)
     ELSE LET deleted == DeleteAssignments(JoinRows(kind), noteId)
              arg == AssignArg(noteId, kind, ids, AssignmentsOf(JoinRows(kind), noteId))
          IN IF ids = <<>>
             THEN /\ SetJoinRows(kind, deleted)
                  /\ last' = Reply("assign", 200, noteId, arg)
             ELSE IF InsertAccepted(deleted, TagTable(kind), noteId, ids)
             THEN /\ SetJoinRows(kind, InsertAssignments(deleted, noteId, ids))
                  /\ last' = Reply("assign", 200, noteId, arg)
             ELSE /\ SetJoinRows(kind, deleted)
                  /\ last' = Reply("assign", 400, noteId, None)
  /\ UNCHANGED <<noteVars, now, labels, categories, nextTagId, inflight, seen, pager, env>>

\* The same handler one store call at a time: other requests run between
\* its awaits. A request in flight records the assignments the note had when
\* it began.
AssignBegin(u, noteId, kind, ids) ==
  /\ Cardinality(inflight) < MaxInflight
  /\ IF ~Owned(u, noteId)
     THEN /\ UNCHANGED <<inflight, seen, pager, env>>
          /\ last' = Reply("assign", 404, noteId, None)
     ELSE /\ inflight' = inflight \cup
                 {[note |-> noteId, kind |-> kind, ids |-> ids, pc |-> "delete",
                   old |-> AssignmentsOf(JoinRows(kind), noteId)]}
          /\ seen' = None
          /\ UNCHANGED last
  /\ UNCHANGED <<noteVars, now, tagVars, pager, env>>

AssignDelete(r) ==
  /\ r \in inflight /\ r.pc = "delete"
  /\ SetJoinRows(r.kind, DeleteAssignments(JoinRows(r.kind), r.note))
  /\ IF r.ids = <<>>
     THEN /\ inflight' = inflight \ {r}
          /\ last' = Reply("assign", 200, r.note, AssignArg(r.note, r.kind, r.ids, r.old))
     ELSE /\ inflight' = (inflight \ {r}) \cup {[r EXCEPT !.pc = "insert"]}
          /\ UNCHANGED last
  /\ UNCHANGED <<noteVars, now, labels, categories, nextTagId, seen, pager, env>>

AssignInsert(r) ==
  /\ r \in inflight /\ r.pc = "insert"
  /\ IF InsertAccepted(JoinRows(r.kind), TagTable(r.kind), r.note, r.ids)
     THEN /\ SetJoinRows(r.kind, InsertAssignments(JoinRows(r.kind), r.note, r.ids))
          /\ last' = Reply("assign", 200, r.note, AssignArg(r.note, r.kind, r.ids, r.old))
     ELSE /\ UNCHANGED <<note_labels, note_categories>>
          /\ last' = Reply("assign", 400, r.note, None)
  /\ inflight' = inflight \ {r}
  /\ UNCHANGED <<noteVars, now, labels, categories, nextTagId, seen, pager, env>>

----------------------------------------------------------------------------
(* labelsRoute.js: router.get("/notes-with-labels") *)

\* One SQL statement: SELECT n.* and the labels (categories) joined to a
\* note of the caller, as they are at the moment it runs. The rows go into
\* the response as the store returned them (res.json({ notes })).
ReadNoteTags(u, noteId, kind) ==
  /\ Owned(u, noteId)
  /\ seen' = Some([note |-> noteId, kind |-> kind,
                   tags |-> AssignmentsOf(JoinRows(kind), noteId) \cap DOMAIN TagTable(kind),
                   row |-> notes[noteId]])
  /\ UNCHANGED <<noteVars, now, tagVars, inflight, last, pager, env>>

\* The WHERE clause of the joined statement: n.user_id = $1 and, for a
\* label_id (category_id) of the query string, AND EXISTS (SELECT 1 FROM
\* note_labels nl2 WHERE nl2.note_id = n.id AND nl2.label_id = $2).
JoinedMatches(u, label_id, category_id) ==
  {id \in DOMAIN notes :
     /\ notes[id].user_id = u
     /\ IsSome(label_id) => <<id, Val(label_id)>> \in DOMAIN note_labels
     /\ IsSome(category_id) => <<id, Val(category_id)>> \in DOMAIN note_categories}

\* if (error): .from("notes").select("*").eq("user_id", req.user.id), with
\* nothing of the query string.
FallbackMatches(u, label_id, category_id) ==
  {id \in DOMAIN notes : notes[id].user_id = u}

\* The whole handler as a listing: the notes of the response, by their ids.
\* supabase.rpc('execute_sql') answers or fails (the repository creates no
\* such function in the store); on a failure the handler answers from the
\* fallback query.
NotesWithLabels(u, label_id, category_id, error) ==
  /\ last' = ReplyList("notes-with-labels", 200,
                       [user |-> u, label_id |-> label_id, category_id |-> category_id,
                        fallback |-> error],
                       [ids |-> IF error THEN FallbackMatches(u, label_id, category_id)
                                ELSE JoinedMatches(u, label_id, category_id)])
  /\ UNCHANGED <<noteVars, now, tagVars, inflight, seen, pager, env>>

----------------------------------------------------------------------------
(* Time passes between requests. *)

Tick ==
  /\ now < MaxTime
  /\ now' = now + 1
  /\ UNCHANGED <<noteVars, tagVars, inflight, seen, last, pager, env>>

----------------------------------------------------------------------------

Init ==
  /\ notes = <<>>
  /\ nextId = 1
  /\ now = 0
  /\ cleared = {}
  /\ labels = <<>>
  /\ categories = <<>>
  /\ nextTagId = [k \in Kinds |-> 1]
  /\ note_labels = <<>>
  /\ note_categories = <<>>
  /\ inflight = {}
  /\ seen = None
  /\ last = Reply("none", 0, 0, None)
  /\ pager = None
  /\ env = Some("key")

(***************************************************************************)
(* Spec: visibility and sharing over several notes. Requests carry the     *)
(* is_public and is_draft fields. One user creates the notes; every user   *)
(* sends updates and deletes for every note id; any share id is looked up. *)
(***************************************************************************)
Next ==
  \/ \E req \in NoteReqs({Some("A")}, {None}, {None}, Opt(Bools), Opt(Bools)) :
       Create("u1", req)
  \/ \E u \in Users, id \in NoteIds,
        req \in NoteReqs({None}, {None}, {None}, Opt(Bools), Opt(Bools)) :
       Update(u, id, req)
  \/ \E u \in Users, id \in NoteIds : Delete(u, id)
  \/ \E shareId \in ShareIdSpace : FetchPublic(shareId)

Spec == Init /\ [][Next]_vars

(***************************************************************************)
(* SpecContent: the plain / encrypted axis. Requests carry content and     *)
(* is_encrypted; an autosave body may carry an is_encrypted field too. The *)
(* handlers of this axis read and write one row, so the table holds one    *)
(* note at a time (a new one is created once the last is deleted), and it  *)
(* is read back by its id.                                                 *)
(***************************************************************************)
NextContent ==
  \/ \E u \in Users, req \in NoteReqs({Some("A")}, Opt(Contents), Opt(Bools), {None}, {None}) :
       DOMAIN notes = {} /\ Create(u, req)
  \/ \E u \in Users, id \in NoteIds,
        req \in NoteReqs({None}, Opt(Contents), Opt(Bools), {None}, {None}) :
       Update(u, id, req)
  \/ \E u \in Users, id \in NoteIds,
        req \in NoteReqs({None}, Opt(Contents), Opt(Bools), {None}, {None}) :
       Autosave(u, id, req)
  \/ \E u \in Users, id \in NoteIds : Delete(u, id)
  \/ \E u \in Users, id \in NoteIds : Fetch(u, id)

SpecContent == Init /\ [][NextContent]_vars

(***************************************************************************)
(* SpecUpdate: partial updates of one note. An update body carries any one *)
(* or any two of title, content, is_encrypted, is_public and is_draft, or  *)
(* none of them.                                                           *)
(***************************************************************************)
FieldsPresent(req) ==
  Cardinality({f \in {"title", "content", "is_encrypted", "is_public", "is_draft"} :
                 IsSome(req[f])})

MaxFieldsPresent == 2

PartialUpdates ==
  {req \in NoteReqs({None, Some("B")}, Opt({"", "y"}), Opt(Bools), Opt(Bools), Opt(Bools)) :
     FieldsPresent(req) <= MaxFieldsPresent}

NextUpdate ==
  \/ \E req \in NoteReqs({Some("A")}, {Some("x")}, {None, Some(TRUE)}, {None}, {None}) :
       DOMAIN notes = {} /\ Create("u1", req)
  \/ \E u \in Users, id \in NoteIds, req \in PartialUpdates : Update(u, id, req)

SpecUpdate == Init /\ [][NextUpdate]_vars

(***************************************************************************)
(* SpecPaging: the arithmetic of the listing's pages. A client pages       *)
(* through an unchanging ordered result of up to MaxRows rows with one     *)
(* limit, asking for the next page for as long as hasNext says there is    *)
(* one. The rows are known by their place in the result.                   *)
(***************************************************************************)
PageLimits == {10, DefaultLimit, LimitCap, LimitCap + 50}

InitPaging ==
  /\ notes = <<>> /\ nextId = 1 /\ now = 0 /\ cleared = {}
  /\ labels = <<>> /\ categories = <<>> /\ nextTagId = [k \in Kinds |-> 1]
  /\ note_labels = <<>> /\ note_categories = <<>>
  /\ inflight = {} /\ seen = None
  /\ last = Reply("none", 0, 0, None)
  /\ env = Some("key")
  /\ pager \in {Some([over |-> [i \in 1..n |-> i], limit |-> l, pages |-> <<>>]) :
                  n \in 0..MaxRows, l \in PageLimits}

\* The client asks for page 1, and for page k + 1 when the response to page
\* k had hasNext.
TurnPage ==
  /\ IsSome(pager)
  /\ LET p == Val(pager)
         page == Len(p.pages) + 1
     IN /\ page = 1 \/ hasNext(page - 1, p.limit, Len(p.over))
        /\ pager' = Some([p EXCEPT !.pages = Append(@, PageOf(p.over, page, p.limit))])
  /\ UNCHANGED <<noteVars, now, tagVars, inflight, seen, last, env>>

NextPaging == TurnPage

SpecPaging == InitPaging /\ [][NextPaging]_vars

(***************************************************************************)
(* SpecCount: the listing's filters and its count. One user creates notes  *)
(* at different times: private drafts, plain or encrypted, and published   *)
(* notes, private or public. The user lists the first page with every      *)
(* combination of draft_only, visibility, search, date_from and date_to,   *)
(* one row a page; every user lists the first two pages with no filter.    *)
(***************************************************************************)
CountedCreates ==
  NoteReqs({Some("A")}, {Some("x")}, {None, Some(TRUE)}, {None}, {None})
    \cup NoteReqs({Some("A")}, {Some("x")}, {None}, {None, Some(TRUE)}, {Some(FALSE)})

FilterQueries ==
  ListQueries({1}, {1}, {None}, {None},
              Opt({"true", "false"}), Opt({"public", "private", "encrypted"}),
              {None, Some("x")}, {None, Some(1)}, {None, Some(0)})

UnfilteredQueries ==
  ListQueries({1, 2}, {1}, {None}, {None}, {None}, {None}, {None}, {None}, {None})

NextCount ==
  \/ \E req \in CountedCreates : Create("u1", req)
  \/ \E q \in FilterQueries : List("u1", q)
  \/ \E u \in Users, q \in UnfilteredQueries : List(u, q)
  \/ Tick

SpecCount == Init /\ [][NextCount]_vars

(***************************************************************************)
(* SpecShift: a client turns the pages of a listing sorted by updated_at   *)
(* descending while the owner creates notes. The listing is the sequence   *)
(* of the owner's note ids in the order of the query: a created note gets  *)
(* the next id and updated_at = now, which is at least every updated_at    *)
(* there is, so by (updated_at desc, id desc) it is the first row.         *)
(***************************************************************************)
ShiftLimits == {10, DefaultLimit}

MaxExisting == 25

MaxCreatedMeanwhile == 2

InitShift ==
  /\ notes = <<>> /\ nextId = 1 /\ now = 0 /\ cleared = {}
  /\ labels = <<>> /\ categories = <<>> /\ nextTagId = [k \in Kinds |-> 1]
  /\ note_labels = <<>> /\ note_categories = <<>>
  /\ inflight = {} /\ seen = None
  /\ last = Reply("none", 0, 0, None)
  /\ env = Some("key")
  /\ pager \in {Some([over |-> [i \in 1..n |-> n + 1 - i], limit |-> l, pages |-> <<>>]) :
                  n \in 0..MaxExisting, l \in ShiftLimits}

\* The rows there were when page 1 was served, in the order of the listing:
\* page 1 starts with the row of the largest id of that moment.
ExistingAtPageOne(p) ==
  IF p.pages[1] = <<>> THEN <<>>
  ELSE [i \in 1..p.pages[1][1] |-> p.pages[1][1] + 1 - i]

\* The insert of router.post("/") as the listing sees it, between two calls
\* of the client: one more row, first in the order.
CreatedMeanwhile ==
  /\ IsSome(pager)
  /\ LET p == Val(pager)
     IN /\ p.pages # <<>>
        /\ Len(p.over) < Len(ExistingAtPageOne(p)) + MaxCreatedMeanwhile
        /\ pager' = Some([p EXCEPT !.over = <<Len(p.over) + 1>> \o @])
  /\ UNCHANGED <<noteVars, now, tagVars, inflight, seen, last, env>>

NextShift ==
  \/ TurnPage
  \/ CreatedMeanwhile

SpecShift == InitShift /\ [][NextShift]_vars

(***************************************************************************)
(* SpecLww: two updates of one note overlap. One user creates plain and    *)
(* encrypted notes; updates of the content and of the two flags read the   *)
(* note and write it; a behaviour has one group of updates, which all     *)
(* read the note before any of them writes it.                            *)
(***************************************************************************)
RacingCreates ==
  NoteReqs({Some("A")}, {Some("x")}, {None, Some(TRUE)}, {None}, {None})

RacingUpdates ==
  NoteReqs({None}, Opt({"y"}), Opt(Bools), {None}, {None, Some(FALSE)})

NextLww ==
  \/ \E req \in RacingCreates : Create("u1", req)
  \/ \E id \in NoteIds, req \in RacingUpdates :
       /\ seen = None \/ (inflight # {} /\ Val(seen).done = <<>>)
       /\ UpdateBegin("u1", id, req)
  \/ \E r \in inflight : UpdateWrite(r)
  \/ Tick

SpecLww == Init /\ [][NextLww]_vars

(***************************************************************************)
(* SpecSkew: a listing whose two queries are served one at a time while    *)
(* the owner creates and deletes notes.                                    *)
(***************************************************************************)
SkewCreates == NoteReqs({Some("A")}, {Some("x")}, {None}, {None}, {None})

SkewQueries ==
  ListQueries({1}, {1, DefaultLimit}, {None}, {None}, {None}, {None}, {None}, {None}, {None})

NextSkew ==
  \/ \E req \in SkewCreates : Create("u1", req)
  \/ \E id \in NoteIds : Delete("u1", id)
  \/ \E q \in SkewQueries : ListBegin("u1", q)
  \/ \E r \in inflight : ListPage(r)
  \/ \E r \in inflight : ListCount(r)
  \/ Tick

SpecSkew == Init /\ [][NextSkew]_vars

(***************************************************************************)
(* SpecShareRace: two updates of the is_public flag of one note overlap.   *)
(* One user creates a private or a public note; the updates read the note  *)
(* before either of them writes it.                                        *)
(***************************************************************************)
SharedCreates == NoteReqs({Some("A")}, {None}, {None}, Opt(Bools), {None})

SharingUpdates == NoteReqs({None}, {None}, {None}, {Some(TRUE), Some(FALSE)}, {None})

NextShareRace ==
  \/ \E req \in SharedCreates : Create("u1", req)
  \/ \E id \in NoteIds, req \in SharingUpdates :
       /\ seen = None \/ (inflight # {} /\ Val(seen).done = <<>>)
       /\ UpdateBegin("u1", id, req)
  \/ \E r \in inflight : UpdateWrite(r)

SpecShareRace == Init /\ [][NextShareRace]_vars

(***************************************************************************)
(* SpecAutosaveRace: an autosave of the content overlaps with updates that *)
(* set is_encrypted together with a content. One user creates plain and    *)
(* encrypted notes with a content.                                         *)
(***************************************************************************)
FlagUpdates == NoteReqs({None}, {Some("x")}, {Some(TRUE), Some(FALSE)}, {None}, {None})

ContentAutosaves == NoteReqs({None}, {Some("y")}, {None}, {None}, {None})

NextAutosaveRace ==
  \/ \E req \in RacingCreates : Create("u1", req)
  \/ \E id \in NoteIds, req \in FlagUpdates : Update("u1", id, req)
  \/ \E id \in NoteIds, req \in ContentAutosaves : AutosaveBegin("u1", id, req)
  \/ \E r \in inflight : AutosaveWrite(r)

SpecAutosaveRace == Init /\ [][NextAutosaveRace]_vars

(***************************************************************************)
(* SpecSort: the order of the listing. One user creates notes under two    *)
(* titles at different times, drafts or published, and autosaves them; the *)
(* listing is asked for in every sort field, one that is not allowed and   *)
(* none, ascending and descending.                                         *)
(***************************************************************************)
SortQueries ==
  ListQueries({1}, {DefaultLimit}, Opt(validSortFields \cup {"id"}), {None, Some("asc")},
              {None}, {None}, {None}, {None}, {None})

SortAutosaves == NoteReqs({None}, {Some("y")}, {None}, {None}, {None})

NextSort ==
  \/ \E req \in NoteReqs({Some("A"), Some("B")}, {None}, {None}, {None}, {None, Some(FALSE)}) :
       Create("u1", req)
  \/ \E id \in NoteIds, req \in SortAutosaves : Autosave("u1", id, req)
  \/ \E q \in SortQueries : List("u1", q)
  \/ Tick

SpecSort == Init /\ [][NextSort]_vars

(***************************************************************************)
(* SpecDecrypt: reads of notes of which some cannot be decrypted. One user *)
(* creates notes with content, plain or encrypted, private drafts or       *)
(* published and public; a ciphertext may be one of another key. The notes *)
(* are listed, fetched by id and fetched by share id.                      *)
(***************************************************************************)
PlainQuery ==
  ListQueries({1}, {DefaultLimit}, {None}, {None}, {None}, {None}, {None}, {None}, {None})

NextDecrypt ==
  \/ \E req \in NoteReqs({Some("A")}, {Some("x")}, Opt(Bools), {None}, {None})
               \cup NoteReqs({Some("A")}, {Some("x")}, Opt(Bools), {Some(TRUE)}, {Some(FALSE)}) :
       Create("u1", req)
  \/ \E id \in NoteIds : WrittenUnderOtherKey(id)
  \/ \E u \in Users, q \in PlainQuery : List(u, q)
  \/ \E u \in Users, id \in NoteIds : Fetch(u, id)
  \/ \E shareId \in ShareIdSpace : FetchPublic(shareId)

SpecDecrypt == Init /\ [][NextDecrypt]_vars

(***************************************************************************)
(* SpecRead: what the responses carry. One user creates a note with        *)
(* content, plain or encrypted; updates change its content or its          *)
(* is_encrypted flag; the note is read by its id and through the joined    *)
(* view of notes-with-labels.                                              *)
(***************************************************************************)
NextRead ==
  \/ \E req \in NoteReqs({Some("A")}, {Some("x")}, Opt(Bools), {None}, {None}) :
       DOMAIN notes = {} /\ Create("u1", req)
  \/ \E u \in Users, id \in NoteIds,
        req \in NoteReqs({None}, {None, Some("y")}, Opt(Bools), {None}, {None}) :
       Update(u, id, req)
  \/ \E u \in Users, id \in NoteIds : Fetch(u, id)
  \/ \E u \in Users, id \in NoteIds : ReadNoteTags(u, id, "label")

SpecRead == Init /\ [][NextRead]_vars

(***************************************************************************)
(* SpecPublish: the draft / published and private / public axes of one     *)
(* note over time, with autosave. One user creates the note, with any      *)
(* flags; every user sends updates, which carry is_public and is_draft,    *)
(* and autosaves, whose body carries title, content and the three flags    *)
(* (all absent, all true or all false).                                    *)
(***************************************************************************)
AutosaveBodies ==
  {req \in NoteReqs({None, Some("B")}, {None, Some("y")}, Opt(Bools), Opt(Bools), Opt(Bools)) :
     req.is_encrypted = req.is_public /\ req.is_public = req.is_draft}

NextPublish ==
  \/ \E req \in NoteReqs({Some("A")}, {Some("x")}, Opt(Bools), Opt(Bools), Opt(Bools)) :
       DOMAIN notes = {} /\ Create("u1", req)
  \/ \E u \in Users, id \in NoteIds,
        req \in NoteReqs({None}, {None}, {None}, Opt(Bools), Opt(Bools)) :
       Update(u, id, req)
  \/ \E u \in Users, id \in NoteIds, req \in AutosaveBodies : Autosave(u, id, req)
  \/ Tick

SpecPublish == Init /\ [][NextPublish]_vars

(***************************************************************************)
(* SpecAssign: label and category assignment, one request after another.   *)
(* One user creates the notes, with their defaults; labels are created     *)
(* under one name, so each user has at most one, and one user creates a    *)
(* category. Every user sends assignments for every note id; an id list    *)
(* may repeat an id or name a tag that does not exist.                     *)
(***************************************************************************)
PlainCreate == NoteReqs({Some("A")}, {None}, {None}, {None}, {None})

NextAssign ==
  \/ \E req \in PlainCreate : Create("u1", req)
  \/ \E u \in Users : CreateTag(u, "label", "work")
  \/ CreateTag("u1", "category", "work")
  \/ \E u \in Users, id \in NoteIds, kind \in Kinds, ids \in TagIdLists :
       Assign(u, id, kind, ids)

SpecAssign == Init /\ [][NextAssign]_vars

(***************************************************************************)
(* SpecJoined: the joined view filtered by a label or a category. Both     *)
(* users create notes; one user creates a label and a category and         *)
(* assigns them; every user reads the view, on both paths.                 *)
(***************************************************************************)
NextJoined ==
  \/ \E u \in Users, req \in PlainCreate : Create(u, req)
  \/ \E kind \in Kinds : CreateTag("u1", kind, "work")
  \/ \E id \in NoteIds, kind \in Kinds, ids \in TagIdLists : Assign("u1", id, kind, ids)
  \/ \E u \in Users, label_id \in Opt(TagIds), category_id \in Opt(TagIds), error \in Bools :
       NotesWithLabels(u, label_id, category_id, error)

SpecJoined == Init /\ [][NextJoined]_vars

(***************************************************************************)
(* SpecNames: the names of labels and categories. Both users create and    *)
(* rename labels, and one user categories, under two names.                *)
(***************************************************************************)
NextNames ==
  \/ \E u \in Users, name \in TagNames : CreateTag(u, "label", name)
  \/ \E name \in TagNames : CreateTag("u1", "category", name)
  \/ \E u \in Users, kind \in Kinds, id \in TagIds, name \in Opt(TagNames) :
       UpdateTag(u, kind, id, name)

SpecNames == Init /\ [][NextNames]_vars

(***************************************************************************)
(* SpecTagDelete: labels and categories are deleted. One user creates a    *)
(* note, a label, categories with and without a parent, moves a category   *)
(* under another and assigns; every user sends deletes.                    *)
(***************************************************************************)
ParentIds == 1..(MaxTags + 1)

NextTagDelete ==
  \/ \E req \in PlainCreate : nextId = 1 /\ Create("u1", req)
  \/ CreateTag("u1", "label", "work")
  \/ CreateTag("u1", "category", "work")
  \/ \E parent \in ParentIds : CreateChildCategory("u1", "home", parent)
  \/ \E id \in TagIds, parent \in ParentIds : MoveCategory("u1", id, parent)
  \/ \E kind \in Kinds, ids \in TagIdLists : Assign("u1", 1, kind, ids)
  \/ \E u \in Users, kind \in Kinds, id \in TagIds : DeleteTag(u, kind, id)

SpecTagDelete == Init /\ [][NextTagDelete]_vars

(***************************************************************************)
(* SpecStartup: the process is started with an encryption key in its       *)
(* environment, with an empty one or with none, and serves creates,        *)
(* fetches and deletes of plain and encrypted notes.                       *)
(***************************************************************************)
InitStartup ==
  /\ notes = <<>> /\ nextId = 1 /\ now = 0 /\ cleared = {}
  /\ labels = <<>> /\ categories = <<>> /\ nextTagId = [k \in Kinds |-> 1]
  /\ note_labels = <<>> /\ note_categories = <<>>
  /\ inflight = {} /\ seen = None
  /\ last = Reply("none", 0, 0, None)
  /\ pager = None
  /\ env \in Opt({"", "key"})

NextStartup ==
  \/ \E req \in NoteReqs({Some("A")}, {Some("x"), Some("y")}, Opt(Bools), {None}, {None}) :
       Create("u1", req)
  \/ \E id \in NoteIds : Fetch("u1", id)
  \/ \E id \in NoteIds : Delete("u1", id)

SpecStartup == InitStartup /\ [][NextStartup]_vars

(***************************************************************************)
(* SpecAssignConc: a label assignment in flight while the joined view is   *)
(* read. One user owns the notes and the labels; the category handler is   *)
(* the same code over the other join table.                                *)
(***************************************************************************)
NextAssignConc ==
  \/ \E req \in PlainCreate : Create("u1", req)
  \/ \E name \in TagNames : CreateTag("u1", "label", name)
  \/ \E u \in Users, id \in NoteIds, ids \in TagIdLists :
       inflight = {} /\ AssignBegin(u, id, "label", ids)
  \/ \E r \in inflight : AssignDelete(r)
  \/ \E r \in inflight : AssignInsert(r)
  \/ \E id \in NoteIds : ReadNoteTags("u1", id, "label")

SpecAssignConc == Init /\ [][NextAssignConc]_vars

(***************************************************************************)
(* SpecAssignRace: two label assignments to one note overlap. One user     *)
(* creates the notes and two labels and asks for label 1 alone and for     *)
(* label 2 alone; the category handler is the same code over the other     *)
(* join table.                                                             *)
(***************************************************************************)
RacingA == <<1>>
RacingB == <<2>>

NextAssignRace ==
  \/ \E req \in PlainCreate : Create("u1", req)
  \/ \E name \in TagNames : CreateTag("u1", "label", name)
  \/ \E id \in NoteIds, ids \in {RacingA, RacingB} : AssignBegin("u1", id, "label", ids)
  \/ \E r \in inflight : AssignDelete(r)
  \/ \E r \in inflight : AssignInsert(r)

SpecAssignRace == Init /\ [][NextAssignRace]_vars

(***************************************************************************)
(* SpecOwner: the owner-scoped routes called by the owner and by another   *)
(* user, for note ids that exist and for ids that do not. One user creates *)
(* the notes, a label and a category; every user fetches, renames          *)
(* (update), autosaves, deletes and assigns to every note id.              *)
(***************************************************************************)
OwnerUpdates == NoteReqs({Some("B")}, {None}, {None}, {None}, {None})
OwnerAutosaves == NoteReqs({None}, {Some("y")}, {None}, {None}, {None})

NextOwner ==
  \/ \E req \in PlainCreate : Create("u1", req)
  \/ \E kind \in Kinds : CreateTag("u1", kind, "work")
  \/ \E u \in Users, id \in NoteIds : Fetch(u, id)
  \/ \E u \in Users, id \in NoteIds, req \in OwnerUpdates : Update(u, id, req)
  \/ \E u \in Users, id \in NoteIds, req \in OwnerAutosaves : Autosave(u, id, req)
  \/ \E u \in Users, id \in NoteIds : Delete(u, id)
  \/ \E u \in Users, id \in NoteIds, kind \in Kinds, ids \in TagIdLists :
       Assign(u, id, kind, ids)

SpecOwner == Init /\ [][NextOwner]_vars

----------------------------------------------------------------------------
(* Claims *)

\* C1 (as stated): every stored note has exactly one of content /
\* encrypted_content non-null, encrypted_content when is_encrypted is true
\* and content when it is false.
C1_ExactlyOneContentColumn ==
  \A id \in DOMAIN notes :
    IF notes[id].is_encrypted
    THEN IsSome(notes[id].encrypted_content) /\ notes[id].content = None
    ELSE IsSome(notes[id].content) /\ notes[id].encrypted_content = None

\* C2 (as stated): every public note has a share id and is not a draft.
C2_PublicHasShareIdAndIsNotDraft ==
  \A id \in DOMAIN notes :
    notes[id].is_public => IsSome(notes[id].public_share_id) /\ ~notes[id].is_draft

\* C2 (amended): after any sequence of create and update calls, every note
\* with is_public = true has a non-null public_share_id.
C2_PublicHasShareId ==
  \A id \in DOMAIN notes : notes[id].is_public => IsSome(notes[id].public_share_id)

\* A private draft that an update has made public, and that is still a draft.
C2_Witness ==
  /\ last.op = "update" /\ last.status = 200
  /\ last.arg.is_public = Some(TRUE)
  /\ notes[last.id].is_public /\ notes[last.id].is_draft
  /\ IsSome(notes[last.id].public_share_id)

\* C4: once a note's published_at is non-null it stays non-null through every
\* later update and autosave.
C4_PublishedAtMonotonic ==
  [][\A id \in DOMAIN notes :
       IsSome(notes[id].published_at) =>
         id \in DOMAIN notes' /\ IsSome(notes'[id].published_at)]_vars

\* A published note that an update has set back to draft and private.
C4_Witness ==
  /\ last.op = "update" /\ last.status = 200
  /\ last.arg.is_draft = Some(TRUE) /\ last.arg.is_public = Some(FALSE)
  /\ notes[last.id].is_draft /\ ~notes[last.id].is_public
  /\ IsSome(notes[last.id].published_at)

\* C5 (as stated): no note ever carries a share id that has been cleared
\* (public, then private, then public again yields a different id).
C5_ClearedShareIdNeverReused ==
  \A id \in DOMAIN notes :
    IsSome(notes[id].public_share_id) => Val(notes[id].public_share_id) \notin cleared

\* A step that served an autosave request: every handler leaves its route
\* in last, and only Tick moves the clock.
AutosaveStep == last'.op = "autosave" /\ now' = now

SameFlags(old, new) ==
  /\ new.user_id = old.user_id
  /\ new.is_encrypted = old.is_encrypted
  /\ new.is_public = old.is_public
  /\ new.is_draft = old.is_draft
  /\ new.public_share_id = old.public_share_id
  /\ new.published_at = old.published_at

\* C8 (as stated): autosave leaves is_encrypted, is_public, is_draft,
\* public_share_id and published_at unchanged for every body, and changes
\* only title, content / encrypted_content and auto_saved_at.
C8_AutosaveChangesOnlyTitleContentAutoSavedAt ==
  [][AutosaveStep =>
       /\ DOMAIN notes' = DOMAIN notes
       /\ \A id \in DOMAIN notes :
            /\ SameFlags(notes[id], notes'[id])
            /\ notes'[id].updated_at = notes[id].updated_at]_vars

\* C8 (amended): autosave leaves is_encrypted, is_public, is_draft,
\* public_share_id and published_at (and the owner) unchanged for every
\* body; it changes only title, content / encrypted_content, auto_saved_at
\* and updated_at, and only of the note it names.
C8_AutosaveFrame ==
  [][AutosaveStep =>
       /\ DOMAIN notes' = DOMAIN notes
       /\ \A id \in DOMAIN notes : SameFlags(notes[id], notes'[id])
       /\ \A id \in DOMAIN notes : last'.id # id => notes'[id] = notes[id]
       /\ UNCHANGED <<nextId, cleared, tagVars>>]_vars

\* An autosave whose body carried is_public = is_draft = is_encrypted = TRUE
\* has run on a note that is still private, plain and not a draft.
C8_Witness ==
  /\ last.op = "autosave" /\ last.status = 200
  /\ last.arg.is_public = Some(TRUE) /\ last.arg.title = Some("B")
  /\ ~notes[last.id].is_public /\ ~notes[last.id].is_encrypted /\ ~notes[last.id].is_draft
  /\ notes[last.id].title = "B"

\* C9: autosave with content x stores the ciphertext of x in
\* encrypted_content and NULL in content when the note's stored is_encrypted
\* is true, and x in content when it is false, whatever the body says.
C9_AutosaveUsesStoredFlag ==
  [][AutosaveStep /\ last'.status = 200 /\ IsSome(last'.arg.content) =>
       LET id == last'.id
           x == Val(last'.arg.content)
       IN IF notes[id].is_encrypted
          THEN /\ IsSome(notes'[id].encrypted_content)
               /\ decryptText(Val(notes'[id].encrypted_content)) = x
               /\ notes'[id].content = None
          ELSE notes'[id].content = Some(x)]_vars

\* An autosave of "x" whose body said is_encrypted = FALSE has run on an
\* encrypted note.
C9_Witness ==
  /\ last.op = "autosave" /\ last.status = 200
  /\ last.arg.content = Some("x") /\ last.arg.is_encrypted = Some(FALSE)
  /\ notes[last.id].is_encrypted
  /\ notes[last.id].content = None
  /\ decryptText(Val(notes[last.id].encrypted_content)) = "x"

\* C10: fetchPublic(shareId) returns a note only if that note's
\* public_share_id is shareId and it is public and not a draft; in every
\* other case it returns not-found; the owner of the note plays no part.
C10_FetchPublicOnlyPublished ==
  last.op = "fetchPublic" =>
    /\ last.status \in {200, 404}
    /\ last.status = 200 =>
         /\ last.id \in DOMAIN notes
         /\ notes[last.id].public_share_id = Some(last.arg)
         /\ notes[last.id].is_public
         /\ ~notes[last.id].is_draft
    /\ last.status = 404 =>
         ~\E id \in DOMAIN notes :
            /\ notes[id].public_share_id = Some(last.arg)
            /\ notes[id].is_public
            /\ ~notes[id].is_draft

\* Two published public notes exist and the last public read returned the
\* second of them.
C10_Witness ==
  /\ last.op = "fetchPublic" /\ last.status = 200
  /\ \E a, b \in DOMAIN notes :
       /\ a < b /\ last.id = b
       /\ notes[a].is_public /\ notes[b].is_public
       /\ ~notes[a].is_draft /\ ~notes[b].is_draft

\* C3 (as stated): while an assign with a non-empty list runs on a note that
\* had a non-empty assignment set of that kind, a concurrent reader of the
\* note sees the old set or the new one, never zero assignments.
C3_ReaderSeesOldOrNewSet ==
  \A r \in inflight :
    (/\ r.ids # <<>> /\ r.old # {}
     /\ IsSome(seen) /\ Val(seen).note = r.note /\ Val(seen).kind = r.kind)
    => /\ Val(seen).tags # {}
       /\ Val(seen).tags \in {r.old, {r.ids[i] : i \in DOMAIN r.ids}}

RowsAfter(kind) == IF kind = "label" THEN note_labels' ELSE note_categories'
OtherKind(kind) == IF kind = "label" THEN "category" ELSE "label"

\* C6: after assign(owner, note, kind, tagIds) returns success, the
\* assignments of that kind of the note are exactly tagIds, whatever they
\* were before (none when tagIds is empty); the assignments of the other
\* kind, and those of every other note, are unchanged.
C6_AssignReplaces ==
  [][last'.op = "assign" /\ last'.status = 200 =>
       LET kind == last'.arg.kind
           ids == last'.arg.ids
       IN /\ AssignmentsOf(RowsAfter(kind), last'.id) = {ids[i] : i \in DOMAIN ids}
          /\ RowsAfter(OtherKind(kind)) = JoinRows(OtherKind(kind))
          /\ \A id \in NoteIds \ {last'.id} :
               AssignmentsOf(RowsAfter(kind), id) = AssignmentsOf(JoinRows(kind), id)]_vars

\* assign(note, label, []) has succeeded on a note that had both labels and
\* that has a category: no label row is left and the category row is.
C6_Witness ==
  /\ last.op = "assign" /\ last.status = 200
  /\ last.arg.kind = "label" /\ last.arg.ids = <<>> /\ last.arg.old = {1, 2}
  /\ AssignmentsOf(note_labels, last.id) = {}
  /\ AssignmentsOf(note_categories, last.id) # {}

\* C7: an assign that repeats the successful assign served just before it
\* leaves both join tables as they were, and no join table ever holds two
\* rows with the same (note_id, tag_id) pair.
C7_AssignIdempotentNoDuplicates ==
  /\ [](\A kind \in Kinds : \A r \in DOMAIN JoinRows(kind) : JoinRows(kind)[r] = 1)
  /\ [][last'.op = "assign" /\ last'.status = 200 /\ last'.arg.again =>
          note_labels' = note_labels /\ note_categories' = note_categories]_vars

\* assign(note, label, [2, 1]) has succeeded twice in a row.
C7_Witness ==
  /\ last.op = "assign" /\ last.status = 200
  /\ last.arg.again /\ last.arg.kind = "label" /\ last.arg.ids = <<2, 1>>
  /\ AssignmentsOf(note_labels, last.id) = {1, 2}

\* C11 (as stated): after an update with is_public = false succeeds the
\* note's public_share_id is null, and fetchPublic with a share id that an
\* update has cleared returns not-found in every later state, also after
\* the note is made public again.
C11_ClearedLinkStaysDead ==
  /\ (last.op = "update" /\ last.status = 200 /\ last.arg.is_public = Some(FALSE))
       => notes[last.id].public_share_id = None
  /\ (last.op = "fetchPublic" /\ last.arg \in cleared) => last.status = 404

\* A step in which user u calls fetch, update, autosave or assign on note id.
CallsNote(u, id) ==
  \/ Fetch(u, id)
  \/ \E req \in OwnerUpdates : Update(u, id, req)
  \/ \E req \in OwnerAutosaves : Autosave(u, id, req)
  \/ \E kind \in Kinds, ids \in TagIdLists : Assign(u, id, kind, ids)

\* Note id is missing, or is not a note of user u.
NotOwnNote(u, id) == id \notin DOMAIN notes \/ notes[id].user_id # u

\* C12: update, autosave, fetch and assign called by a user who does not own
\* the note, or on a missing note, return NotFound and leave every stored
\* note and every assignment row unchanged.
C12_NonOwnerGetsNotFoundAndChangesNothing ==
  [][\A u \in Users, id \in NoteIds :
       NotOwnNote(u, id) /\ CallsNote(u, id) =>
         /\ last'.status = 404
         /\ notes' = notes
         /\ note_labels' = note_labels
         /\ note_categories' = note_categories]_vars

\* A user who does not own it has sent an assign to a note that has a label
\* and a category: the reply is 404 and the rows are there.
C12_Witness ==
  /\ last.op = "assign" /\ last.status = 404
  /\ last.id \in DOMAIN notes
  /\ AssignmentsOf(note_labels, last.id) # {}
  /\ AssignmentsOf(note_categories, last.id) # {}

\* What the caller receives: the status and the note object, if any.
ResponseOf(reply) == [status |-> reply.status, note |-> reply.note]
NotFoundResponse == [status |-> 404, note |-> None]

\* C13: existence is not leaked. For fetch, update, autosave, delete and
\* assign, the response to a caller for a note id that does not exist is
\* identical to the response for a note id that exists but belongs to
\* another user: each is the same not-found response.
C13_MissingAndForeignNoteAnswerAlike ==
  [][\A u \in Users, id \in NoteIds :
       NotOwnNote(u, id) /\ (CallsNote(u, id) \/ Delete(u, id)) =>
         ResponseOf(last') = NotFoundResponse]_vars

\* A delete has been refused for a note that exists (it is another user's)
\* while another note id is missing: both cases of the comparison are met.
C13_Witness ==
  /\ last.op = "delete" /\ last.status = 404
  /\ last.id \in DOMAIN notes
  /\ \E id \in NoteIds : id \notin DOMAIN notes

\* The rows of both join tables that belong to note id.
RowsOfNote(id) ==
  {r \in DOMAIN note_labels : r[1] = id} \cup {r \in DOMAIN note_categories : r[1] = id}

\* C14: delete(owner, noteId) on an owned note removes the note and all of
\* its label and category assignment rows, so that no assignment row ever
\* references a note that does not exist; when no row is affected (missing
\* or not owned) it returns NotFound and the store is unchanged.
C14_DeleteCascades ==
  /\ [](\A r \in DOMAIN note_labels \cup DOMAIN note_categories : r[1] \in DOMAIN notes)
  /\ [][\A u \in Users, id \in NoteIds :
          Delete(u, id) =>
            IF NotOwnNote(u, id)
            THEN /\ last'.status = 404
                 /\ UNCHANGED <<notes, tagVars>>
            ELSE /\ last'.status = 200
                 /\ DOMAIN notes' = DOMAIN notes \ {id}
                 /\ \A other \in DOMAIN notes' : notes'[other] = notes[other]
                 /\ \A kind \in Kinds :
                      /\ AssignmentsOf(RowsAfter(kind), id) = {}
                      /\ \A other \in NoteIds \ {id} :
                           AssignmentsOf(RowsAfter(kind), other)
                             = AssignmentsOf(JoinRows(kind), other)]_vars

\* The owner has deleted a note that had a label and a category while the
\* other note keeps its label.
C14_Witness ==
  /\ last.op = "delete" /\ last.status = 200
  /\ last.id \notin DOMAIN notes
  /\ \E other \in DOMAIN notes : AssignmentsOf(note_labels, other) # {}
  /\ RowsOfNote(last.id) = {}
  /\ labels # <<>> /\ categories # <<>>

\* The value of a flag of a create request: the one given, else the default.
Given(field, default) == IF field = None THEN default ELSE field[1]

\* C15: create applies the defaults draft = true, public = false, encrypted
\* = false; the created note has a non-null public_share_id exactly when
\* is_public is true, and a non-null published_at exactly when is_public is
\* true or is_draft is false (so {is_public:true, is_draft:true} yields
\* both non-null).
C15_CreateDefaultsAndStamps ==
  (last.op = "create" /\ last.status = 201) =>
    LET row == notes[last.id]
        req == last.arg
    IN /\ row.is_draft = Given(req.is_draft, TRUE)
       /\ row.is_public = Given(req.is_public, FALSE)
       /\ row.is_encrypted = Given(req.is_encrypted, FALSE)
       /\ IsSome(row.public_share_id) <=> Given(req.is_public, FALSE)
       /\ IsSome(row.published_at) <=>
            (Given(req.is_public, FALSE) \/ ~Given(req.is_draft, TRUE))
       /\ Val(last.note).public_share_id = row.public_share_id
       /\ Val(last.note).published_at = row.published_at

\* create {is_public:true, is_draft:true} has answered 201 with a draft that
\* has a share id and a published_at.
C15_Witness ==
  /\ last.op = "create" /\ last.status = 201
  /\ last.arg.is_public = Some(TRUE) /\ last.arg.is_draft = Some(TRUE)
  /\ notes[last.id].is_draft
  /\ IsSome(notes[last.id].public_share_id)
  /\ IsSome(notes[last.id].published_at)

\* C16 (as stated): for any content x, including the empty string, create
\* with is_encrypted = true stores content = null and encrypted_content
\* set, the create response carries content = x, and a fetch of that note
\* by its owner right after returns content = x.
C16_EncryptedCreateRoundTrip ==
  [][/\ (nextId' = nextId + 1 /\ last'.arg.is_encrypted = Some(TRUE)) =>
          /\ notes'[nextId].content = None
          /\ IsSome(notes'[nextId].encrypted_content)
          /\ Val(last'.note).content = Some(Given(last'.arg.content, ""))
     /\ (/\ last.op = "create" /\ last.status = 201
         /\ last.arg.is_encrypted = Some(TRUE)
         /\ last'.op = "fetch" /\ last'.status = 200 /\ last'.id = last.id) =>
          Val(last'.note).content = Some(Given(last.arg.content, ""))]_vars

\* C17 (as stated): when an update carries content, the effective
\* encryption state is the request's is_encrypted if given, else the stored
\* flag; if it is true the row afterwards has encrypted_content = the
\* ciphertext of the new content and content = null, if it is false it has
\* content = the new content and encrypted_content = null, for every
\* content value, the empty string included.
C17_UpdateContentFollowsEffectiveFlag ==
  [][(last'.op = "update" /\ last'.status = 200 /\ IsSome(last'.arg.content)) =>
       LET id == last'.id
           x == Val(last'.arg.content)
           effective == Given(last'.arg.is_encrypted, notes[id].is_encrypted)
       IN IF effective
          THEN /\ notes'[id].content = None
               /\ IsSome(notes'[id].encrypted_content)
               /\ decryptText(Val(notes'[id].encrypted_content)) = x
          ELSE /\ notes'[id].content = Some(x)
               /\ notes'[id].encrypted_content = None]_vars

\* C20 (as stated): no note response (create, update, fetch, fetchPublic,
\* notes-with-labels) contains the raw encrypted_content field with a
\* non-null value, in any reachable note state; each carries plaintext
\* content.
C20_NoResponseCarriesCiphertext ==
  /\ IsSome(last.note) =>
       /\ Val(last.note).encrypted_content = None
       /\ IsSome(Val(last.note).content)
  /\ IsSome(seen) =>
       /\ Val(seen).row.encrypted_content = None
       /\ IsSome(Val(seen).row.content)

\* C18: update touches only the fields present in the request. A request
\* that omits content leaves content and encrypted_content unchanged; one
\* that omits title, is_draft or is_encrypted leaves that column unchanged;
\* one that omits is_public leaves is_public and public_share_id unchanged.
C18_UpdateLeavesAbsentFields ==
  [][(last'.op = "update" /\ last'.status = 200) =>
       LET req == last'.arg
           old == notes[last'.id]
           new == notes'[last'.id]
       IN /\ req.content = None =>
               new.content = old.content /\ new.encrypted_content = old.encrypted_content
          /\ req.title = None => new.title = old.title
          /\ req.is_draft = None => new.is_draft = old.is_draft
          /\ req.is_encrypted = None => new.is_encrypted = old.is_encrypted
          /\ req.is_public = None =>
               new.is_public = old.is_public /\ new.public_share_id = old.public_share_id]_vars

\* An update that carried is_draft = false and nothing else has run on a
\* public, encrypted note: it is still public, with its share id and its
\* ciphertext.
C18_Witness ==
  /\ last.op = "update" /\ last.status = 200
  /\ last.arg.is_draft = Some(FALSE) /\ FieldsPresent(last.arg) = 1
  /\ notes[last.id].is_public /\ IsSome(notes[last.id].public_share_id)
  /\ notes[last.id].is_encrypted /\ IsSome(notes[last.id].encrypted_content)
  /\ notes[last.id].title = "B"

\* C19 (as stated): published_at is stamped by update only the first time
\* the note becomes published: an update with is_draft = false on a note
\* whose published_at is already non-null (published earlier, created
\* public while a draft, or set back to draft and published again) leaves
\* published_at unchanged.
C19_PublishedAtStampedOnce ==
  [][(/\ last'.op = "update" /\ last'.status = 200 /\ now' = now
      /\ last'.arg.is_draft = Some(FALSE)
      /\ IsSome(notes[last'.id].published_at)) =>
       notes'[last'.id].published_at = notes[last'.id].published_at]_vars

\* What a reader is to get as the content of a stored row: the plaintext
\* of its ciphertext, the sentinel when the ciphertext cannot be decrypted,
\* and the content column of a row that is not encrypted.
ContentToShow(row, sentinel) ==
  IF row.is_encrypted /\ row.encrypted_content # None
  THEN IF row.encrypted_content[1].key = ENCRYPTION_KEY
       THEN Some(row.encrypted_content[1].ct) ELSE Some(sentinel)
  ELSE row.content

RECURSIVE Flatten(_)
Flatten(pages) ==
  IF pages = <<>> THEN <<>> ELSE Flatten(SubSeq(pages, 1, Len(pages) - 1)) \o pages[Len(pages)]

\* C22 (as stated): list returns at most 100 rows, and on an unchanging data
\* set, for any requested limit (values above 100 included), pages 1, 2, 3,
\* ... cover the ordered result with no gaps and no duplicates: the pages
\* fetched so far are a prefix of the result, and all of it once hasNext is
\* false.
C22_PagesCoverTheResult ==
  IsSome(pager) =>
    LET p == Val(pager)
        got == Flatten(p.pages)
    IN /\ \A k \in DOMAIN p.pages : Len(p.pages[k]) <= 100
       /\ Len(got) <= Len(p.over)
       /\ got = SubSeq(p.over, 1, Len(got))
       /\ (p.pages # <<>> /\ ~hasNext(Len(p.pages), p.limit, Len(p.over))) =>
            got = p.over

\* The notes of user u that satisfy every filter the listing was given.
Wanted(u, q) ==
  {id \in DOMAIN notes :
     /\ notes[id].user_id = u
     /\ q.draft_only = <<"true">> => notes[id].is_draft
     /\ q.draft_only = <<"false">> => ~notes[id].is_draft
     /\ q.visibility = <<"public">> => notes[id].is_public
     /\ q.visibility = <<"private">> => ~notes[id].is_public
     /\ q.visibility = <<"encrypted">> => notes[id].is_encrypted
     /\ q.search # <<>> => (notes[id].title = q.search[1] \/ notes[id].content = q.search)
     /\ q.date_from # <<>> => notes[id].created_at >= q.date_from[1]
     /\ q.date_to # <<>> => notes[id].created_at <= q.date_to[1]}

\* C23 (as stated): for every combination of supplied filters,
\* pagination.total equals the number of the owner's notes that satisfy the
\* predicate of the page query (date range included); hasNext is true
\* exactly when rows exist beyond the current page, and hasPrev exactly when
\* page > 1.
C23_TotalCountsThePageQuery ==
  last.op = "list" =>
    LET q == last.arg.query
        wanted == Wanted(last.arg.user, q)
        sent == {Val(last.list).notes[k].id : k \in DOMAIN Val(last.list).notes}
    IN /\ sent \subseteq wanted
       /\ Val(last.list).total = Cardinality(wanted)
       /\ Val(last.list).hasNext <=> Cardinality(wanted) > q.page * q.limit
       /\ Val(last.list).hasPrev <=> q.page > 1

\* The field the listing is to be ordered by.
WantedField(q) ==
  IF q.sort_by \in {<<"created_at">>, <<"updated_at">>, <<"title">>,
                     <<"published_at">>, <<"auto_saved_at">>}
  THEN q.sort_by[1] ELSE "updated_at"

\* The value of that field in a row of the response (titles by their rank).
FieldOf(sent, field) ==
  IF field = "title" THEN <<IF sent.title = "A" THEN 1 ELSE 2>>
  ELSE IF field \in {"created_at", "updated_at"} THEN <<sent[field]>>
  ELSE sent[field]

\* C24: list orders by the requested sort field when it is one of
\* created_at, updated_at, title, published_at, auto_saved_at and by
\* updated_at otherwise, with ties broken by id descending, so the order of
\* the result is total and deterministic: of two rows of the response that
\* follow each other, either the first comes strictly before the second in
\* the sort field, or they have the same value and the first has the larger
\* id.
C24_ListOrderIsTotal ==
  last.op = "list" =>
    LET q == last.arg.query
        sent == Val(last.list).notes
        field == WantedField(q)
    IN \A k \in 1..(Len(sent) - 1) :
         LET a == FieldOf(sent[k], field)
             b == FieldOf(sent[k + 1], field)
         IN \/ a = b /\ sent[k].id > sent[k + 1].id
            \/ a # b /\ a # <<>> /\ b # <<>> /\ q.sort_order = <<"asc">> /\ a[1] < b[1]
            \/ a # b /\ a # <<>> /\ b # <<>> /\ q.sort_order # <<"asc">> /\ a[1] > b[1]
            \/ a # b /\ b = <<>> /\ q.sort_order = <<"asc">>
            \/ a # b /\ a = <<>> /\ q.sort_order # <<"asc">>

\* A listing by published_at, descending, of two notes that were never
\* published: the note with the larger id comes first.
C24_Witness ==
  /\ last.op = "list"
  /\ last.arg.query.sort_by = Some("published_at") /\ last.arg.query.sort_order = None
  /\ Len(Val(last.list).notes) = 2
  /\ Val(last.list).notes[1].published_at = None
  /\ Val(last.list).notes[2].published_at = None
  /\ Val(last.list).notes[1].id > Val(last.list).notes[2].id

\* C25: pagination is stable under concurrent writes: page 1 and then page 2
\* of a listing sorted by updated_at descending are disjoint and, one after
\* the other, are the first rows of the notes that existed at the first call,
\* with no gap, even if other notes are created between the two calls.
C25_PagesStableUnderCreates ==
  IsSome(pager) /\ Len(Val(pager).pages) >= 2 =>
    LET p == Val(pager)
        both == p.pages[1] \o p.pages[2]
        was == ExistingAtPageOne(p)
    IN /\ \A i, j \in DOMAIN both : i # j => both[i] # both[j]
       /\ both = SubSeq(was, 1, IF Len(was) < 2 * p.limit THEN Len(was) ELSE 2 * p.limit)

\* The rows that running update a and then update b on a row can leave,
\* whatever salts and share ids are drawn and whenever the two run.
OneAfterTheOther(row, a, b) ==
  {UpdateRow(UpdateRow(row, a.req, s1, d1, t1), b.req, s2, d2, t2) :
     <<s1, s2>> \in Salts \X Salts,
     <<d1, d2>> \in generateShareId \X generateShareId,
     <<t1, t2>> \in {tt \in (0..MaxTime) \X (0..MaxTime) : tt[1] <= tt[2]}}

\* C26: two concurrent updates to the same note are last-write-wins: for
\* every interleaving of their read and write steps, the stored row
\* afterwards equals the row obtained by running the two updates one after
\* the other in one of the two orders.
C26_ConcurrentUpdatesSerialize ==
  /\ IsSome(seen) /\ "done" \in DOMAIN Val(seen)
  /\ Len(Val(seen).done) = 2 /\ inflight = {}
  => LET race == Val(seen)
         a == race.done[1]
         b == race.done[2]
     IN notes[race.note] \in OneAfterTheOther(race.row, a, b)
                               \cup OneAfterTheOther(race.row, b, a)

\* C27: the count returned by list agrees with the page fetched in the same
\* request: for any interleaving with concurrent create/delete of the owner's
\* notes, the page rows and pagination.total are taken from the same store
\* state: the total is the count of the state the page was read in, or the
\* page is the page of the state the count was read in.
C27_PageAndTotalFromOneState ==
  last.op = "list" /\ "countThen" \in DOMAIN last.arg =>
    \/ Val(last.list).total = last.arg.countThen
    \/ Val(last.list).notes =
         [k \in DOMAIN last.arg.rowsThen |-> NoteResponse(last.arg.rowsThen[k])]

\* C28: the joined view notes-with-labels with label_id (resp. category_id)
\* returns only notes of the caller that have an assignment row to that
\* label (resp. category), on every path including the fallback taken when
\* the joined query fails.
C28_JoinedViewFilters ==
  last.op = "notes-with-labels" =>
    \A id \in Val(last.list).ids :
      /\ Owned(last.arg.user, id)
      /\ IsSome(last.arg.label_id) => Val(last.arg.label_id) \in AssignmentsOf(note_labels, id)
      /\ IsSome(last.arg.category_id) =>
           Val(last.arg.category_id) \in AssignmentsOf(note_categories, id)

\* The rows of a table that carry a name for an owner.
NamedBy(table, u, name) ==
  {t \in DOMAIN table : table[t].user_id = u /\ table[t].name = name}

NamesUnique ==
  \A kind \in Kinds, u \in Users, name \in TagNames :
    Cardinality(NamedBy(TagTable(kind), u, name)) <= 1

\* C29: label and category names are unique per owner in every reachable
\* state: creating a label/category under a name the same owner already uses,
\* or renaming one to a name that another label/category of the same owner
\* uses, returns the name-exists error and leaves all labels/categories
\* unchanged, while a name that only another owner uses is accepted.
C29_NamesUniquePerOwner ==
  /\ []NamesUnique
  /\ [][\A u \in Users, kind \in Kinds, name \in TagNames :
         /\ CreateTag(u, kind, name) =>
              IF NamedBy(TagTable(kind), u, name) # {}
              THEN /\ last'.status = 400 /\ last'.arg = NameExists
                   /\ labels' = labels /\ categories' = categories
              ELSE /\ last'.status = 201
                   /\ NamedBy(TagTable(kind), u, name)' = {last'.id}
         /\ \A id \in TagIds :
              /\ UpdateTag(u, kind, id, Some(name))
              /\ id \in DOMAIN TagTable(kind) /\ TagTable(kind)[id].user_id = u
              => IF NamedBy(TagTable(kind), u, name) \ {id} # {}
                 THEN /\ last'.status = 400 /\ last'.arg = NameExists
                      /\ labels' = labels /\ categories' = categories
                 ELSE /\ last'.status = 200
                      /\ NamedBy(TagTable(kind), u, name)' = {id}]_vars

\* Two owners hold a label of the same name, and a rename of a label or a
\* category to a name that another one of its owner uses has just been
\* refused.
C29_Witness ==
  /\ \E name \in TagNames :
       NamedBy(labels, "u1", name) # {} /\ NamedBy(labels, "u2", name) # {}
  /\ last.op = "updateTag" /\ last.status = 400 /\ last.arg = NameExists

\* Every category with a parent has one that exists.
ParentsExist ==
  \A c \in DOMAIN categories :
    IsSome(categories[c].parent_category_id) =>
      Val(categories[c].parent_category_id) \in DOMAIN categories

\* C30: deleting a label or category removes all assignment rows that
\* reference it and no note; deleting a parent category deletes no child
\* category but sets each child's parent_category_id to null, so no category
\* ever references a parent that does not exist.
C30_TagDeleteCascadesAndDetaches ==
  /\ []ParentsExist
  /\ [][\A u \in Users, kind \in Kinds, id \in TagIds :
         /\ DeleteTag(u, kind, id)
         /\ id \in DOMAIN TagTable(kind) /\ TagTable(kind)[id].user_id = u
         => /\ last'.status = 200
            /\ notes' = notes
            /\ DOMAIN TagTable(kind)' = DOMAIN TagTable(kind) \ {id}
            /\ \A r \in DOMAIN JoinRows(kind)' : r[2] # id
            /\ \A r \in DOMAIN JoinRows(kind) : r[2] # id => r \in DOMAIN JoinRows(kind)'
            /\ \A c \in DOMAIN categories' :
                 categories'[c].parent_category_id =
                   IF kind = "category" /\ categories[c].parent_category_id = Some(id)
                   THEN None ELSE categories[c].parent_category_id]_vars

\* A category that was the parent of another and was assigned to a note has
\* just been deleted: the child and the note are there.
C30_Witness ==
  /\ last.op = "deleteTag" /\ last.status = 200 /\ last.arg.kind = "category"
  /\ last.arg.children # {} /\ last.arg.children \subseteq DOMAIN categories
  /\ last.arg.assigned # {} /\ last.arg.assigned \subseteq DOMAIN notes

ShareIdsUnique ==
  \A i, j \in DOMAIN notes :
    i # j /\ IsSome(notes[i].public_share_id) =>
      notes[i].public_share_id # notes[j].public_share_id

\* A create or update has just reported that its share id exists.
ReportsShareIdExists ==
  /\ last.op \in {"create", "update"} /\ last.status = 400
  /\ last.arg # None /\ last.arg.error = "share id exists"

\* C31: public_share_id is globally unique in every reachable state, and
\* when a generated share id collides with an existing one, create/update
\* retries generation a bounded number of times and only then reports a
\* conflict error: a request that reports the conflict has generated more
\* than one share id.
C31_ShareIdCollisionRetried ==
  /\ ShareIdsUnique
  /\ ReportsShareIdExists => Len(last.arg.generated) > 1

\* The ciphertexts of the store were written under this key.
EncryptedUnder(key) ==
  \E id \in DOMAIN notes :
    IsSome(notes[id].encrypted_content) /\ Val(notes[id].encrypted_content).key = key

\* C32: when no encryption key is supplied by the environment, the process
\* fails at startup: it serves no request, and it never reaches a state in
\* which encrypt or decrypt has run with the built-in default key.
C32_NoKeyFailsAtStartup ==
  /\ env = None => last.op = "none"
  /\ ~EncryptedUnder(DefaultKey)

\* C33: in every state reachable by any sequential run of create and update
\* calls, a note has a non-null public_share_id only if its is_public is
\* true (a private note never keeps a live share id).
C33_ShareIdOnlyOnPublicNotes ==
  \A id \in DOMAIN notes : IsSome(notes[id].public_share_id) => notes[id].is_public

\* An update has just made a public note private: its share id is gone.
C33_Witness ==
  /\ last.op = "update" /\ last.status = 200 /\ last.arg.is_public = Some(FALSE)
  /\ ~notes[last.id].is_public /\ notes[last.id].public_share_id = None
  /\ cleared # {}

\* C34: under any interleaving of two concurrent update requests on the same
\* note (one setting is_public = true, the other is_public = false), the
\* note never ends with is_public = true and public_share_id = null.
C34_PublicRaceKeepsShareId ==
  inflight = {} =>
    \A id \in DOMAIN notes : notes[id].is_public => IsSome(notes[id].public_share_id)

\* C35: when assign returns an error (for example the insert is rejected
\* because tagIds contains a duplicate id or an id of a tag that does not
\* exist), the note's previous assignment set of that kind is unchanged.
C35_FailedAssignKeepsAssignments ==
  [][\A u \in Users, id \in NoteIds, kind \in Kinds, ids \in TagIdLists :
       Assign(u, id, kind, ids) /\ last'.status >= 400 =>
         AssignmentsOf(JoinRows(kind), id)' = AssignmentsOf(JoinRows(kind), id)]_vars

\* C36: when two assign calls for the same note and kind with sets A and B
\* run concurrently, the final assignment set is exactly A or exactly B,
\* never a mixture such as A \cup B and never the empty set when A and B are
\* non-empty: once an assign of A or of B has been answered and none is in
\* flight, the note has exactly label 1 or exactly label 2.
C36_ConcurrentAssignsLeaveOneSet ==
  inflight = {} /\ last.op = "assign" /\ last.status = 200 =>
    AssignmentsOf(note_labels, last.id) \in
      {{RacingA[i] : i \in DOMAIN RacingA}, {RacingB[i] : i \in DOMAIN RacingB}}

\* C37: every assignment row links a note to a label or category owned by
\* the same user as the note: assign never creates a row whose tag belongs
\* to a different owner than the note.
C37_AssignmentsWithinOneOwner ==
  \A kind \in Kinds : \A r \in DOMAIN JoinRows(kind) :
    r[1] \in DOMAIN notes /\ r[2] \in DOMAIN TagTable(kind) =>
      TagTable(kind)[r[2]].user_id = notes[r[1]].user_id

\* C38: an autosave that runs concurrently with an update changing
\* is_encrypted on the same note never leaves the note with content /
\* encrypted_content inconsistent with its final is_encrypted flag: when no
\* request is in flight, no plain note holds a ciphertext and no encrypted
\* note holds a plaintext.
C38_AutosaveRaceKeepsContentConsistent ==
  inflight = {} =>
    \A id \in DOMAIN notes :
      IF notes[id].is_encrypted
      THEN notes[id].content = None
      ELSE notes[id].encrypted_content = None

====
